---- MODULE Spec2Model ----
(***************************************************************************)
(* Grid-hedge strategy evaluator (frontend/src/utils/strategyCalculator.ts) *)
(* and its two sibling evaluators, as a state machine.                      *)
(*                                                                          *)
(* Units.  A decimal dollar price p of the source (0.55) is the integer     *)
(* number of mills 1000*p (550).  Math.round(p * 100) is RoundCents.        *)
(* A tick's timestamp is its 1-based position in priceData; the source's    *)
(* null timestamp / null grid level is Null.                                *)
(*                                                                          *)
(* The backend's feed connections (CoinMonitor, MarketMonitor, UserMonitor) *)
(* and its TradingBot are a second state machine over sockets, feed,        *)
(* market, bot and obs, with the specifications SpecFeed and SpecBot.       *)
(***************************************************************************)
EXTENDS Integers, Sequences, FiniteSets, TLC

VARIABLES
    priceData,          \* the PriceData[] argument
    maxTotalCost,       \* argument, in cents
    gridGap,            \* argument, in cents
    orderSize,          \* argument
    enableRebuy,        \* fifth argument the callers pass
    pc,                 \* position inside calculateGridHedgeStrategy
    tokenType,          \* processToken: tokenType argument
    gridLevels,         \* result of getGridLevels
    gridStates,         \* processToken: Map<number, GridLevelState>
    previousGridLevel,  \* processToken: local
    currentGridLevel,   \* processToken: local of the current iteration
    i,                  \* processToken: loop index (1-based)
    upStates,           \* calculateGridHedgeStrategy: local
    downStates,         \* calculateGridHedgeStrategy: local
    settle,             \* lastUpTokenPrice / lastDownTokenPrice
    result,             \* StrategyResult returned by calculateGridHedgeStrategy
    sellResult,         \* StrategyResult of calculatePrePurchasedSellStrategy
    hedgeResult,        \* StrategyResult of calculateNewHedgeStrategy
    runs,               \* results of the evaluations completed so far
    sockets,            \* the WebSocket objects created so far
    feed,               \* fields of the feed connection (a monitor object)
    market,             \* MarketMonitor: contract fields and quote snapshot
    bot,                \* fields of the TradingBot and its start() position
    obs                 \* what has been observed of the process so far

gridVars == <<priceData, maxTotalCost, gridGap, orderSize, enableRebuy, pc,
              tokenType, gridLevels, gridStates, previousGridLevel,
              currentGridLevel, i, upStates, downStates, settle, result,
              sellResult, hedgeResult, runs>>

feedVars == <<sockets, feed, market, bot, obs>>

vars == <<gridVars, feedVars>>

(***************************************************************************)
(* Bounds of the explored inputs                                            *)
(***************************************************************************)
MaxTicks == 3
MaxRebuyTicks == 5
MaxRuns == 2
MaxRerunTicks == 1
MaxSockets == 3
MaxPeriods == 3
MaxPending == 2
MaxQuarters == 12

Null == 0

\* Math.round(p * 100) for a price p given in mills (rounds half up)
RoundCents(p) == (p + 5) \div 10

\* cents / 100 as a decimal price, in mills
CentsToPrice(c) == c * 10

Max(a, b) == IF a >= b THEN a ELSE b

Tick(u, d, hasBias, bias) ==
    [upTokenPrice |-> u, downTokenPrice |-> d, hasBias |-> hasBias, coinPriceBias |-> bias]

\* observed quote pairs (mills); the first three are the scenario of the
\* testable properties section
Ticks ==
    { Tick(500, 500, FALSE, 0),
      Tick(560, 440, TRUE, 20),
      Tick(400, 600, TRUE, -20),
      Tick(550, 450, TRUE, 5),
      Tick(600, 370, TRUE, 40),
      Tick(620, 380, FALSE, 0),
      Tick(600, 400, TRUE, -5) }

\* quote pairs that walk the up token between the levels 55 and 60
RebuyTicks ==
    { Tick(550, 450, TRUE, 5),
      Tick(600, 370, TRUE, 40),
      Tick(600, 400, TRUE, -5) }

RECURSIVE SeqsOfLen(_, _)
SeqsOfLen(S, n) ==
    IF n = 0 THEN { <<>> }
    ELSE { Append(s, x) : s \in SeqsOfLen(S, n - 1), x \in S }

SeqsUpTo(S, n) == UNION { SeqsOfLen(S, k) : k \in 0..n }

PriceSeqs == SeqsUpTo(Ticks, MaxTicks) \cup SeqsUpTo(RebuyTicks, MaxRebuyTicks)

MaxTotalCosts == {95, 97}
GridGaps == {5, 10}
OrderSizes == {1, 2}

(***************************************************************************)
(* getGridLevels / getCurrentGridLevel                                      *)
(***************************************************************************)
StartBase == 50

getGridLevels(gap, maxCost) ==
    LET startLevel == StartBase + gap
        n == IF maxCost >= startLevel THEN ((maxCost - startLevel) \div gap) + 1 ELSE 0
    IN  [k \in 1..n |-> startLevel + (k - 1) * gap]

Range(s) == { s[k] : k \in DOMAIN s }

getCurrentGridLevel(currentPrice, levels) ==
    LET currentPriceCents == RoundCents(currentPrice)
    IN  IF currentPriceCents \in Range(levels) THEN currentPriceCents ELSE Null

(***************************************************************************)
(* processToken                                                             *)
(***************************************************************************)
Opposite(tok) == IF tok = "up" THEN "down" ELSE "up"

CurrentPrice(data, tok) == IF tok = "up" THEN data.upTokenPrice ELSE data.downTokenPrice

OppositePrice(data, tok) == IF tok = "up" THEN data.downTokenPrice ELSE data.upTokenPrice

\* faulty variant: the map of a finished pass is kept when the levels are the same
NewGridStates_Stale(levels) ==
    IF DOMAIN gridStates = Range(levels) /\ Range(levels) # {}
    THEN gridStates
    ELSE [l \in Range(levels) |->
             [hasEntered |-> FALSE, hedgeFilled |-> FALSE,
              lastGridLevelCrossed |-> Null, orderPairs |-> <<>>]]

NewGridStates(levels) ==
    [l \in Range(levels) |->
        [hasEntered |-> FALSE, hedgeFilled |-> FALSE,
         lastGridLevelCrossed |-> Null, orderPairs |-> <<>>]]

\* hedge price in cents on a crossing between two grid levels
CrossingHedgeCents(level, maxCost) == Max(0, maxCost - level)

\* hedge price in cents on the first grid level the stream reaches
FirstHedgeCents(level, maxCost) == Max(0, 100 - level - 3)

NewPair(state, level, hedgeCents, tok, ts, size) ==
    [entryOrder |-> [price |-> CentsToPrice(level), timestamp |-> ts, size |-> size,
                     tokenType |-> tok, isReEntry |-> state.hasEntered],
     hedgeOrder |-> [price |-> CentsToPrice(hedgeCents), timestamp |-> Null, size |-> size,
                     tokenType |-> Opposite(tok), isFilled |-> FALSE]]

ShouldEnter(state) == ~state.hasEntered \/ state.hedgeFilled

Enter(gs, level, hedgeCents, tok, ts, size) ==
    [gs EXCEPT ![level] =
        [@ EXCEPT !.orderPairs = Append(@, NewPair(gs[level], level, hedgeCents, tok, ts, size)),
                  !.hasEntered = TRUE]]

\* the level the iteration is at: the matched level, else the previous one
CurrentLevel(data, tok, levels, prev) ==
    LET matchedGridLevel == getCurrentGridLevel(CurrentPrice(data, tok), levels)
    IN  IF matchedGridLevel # Null THEN matchedGridLevel ELSE prev

\* lines 127-226: the entry decision of one iteration
EntryStep(gs, prev, cur, tok, ts, size, maxCost) ==
    IF cur # Null /\ prev # Null
    THEN IF cur # prev /\ cur > prev /\ prev < cur /\ ShouldEnter(gs[cur])
         THEN Enter(gs, cur, CrossingHedgeCents(cur, maxCost), tok, ts, size)
         ELSE gs
    ELSE IF cur # Null /\ prev = Null
         THEN IF ShouldEnter(gs[cur])
              THEN Enter(gs, cur, FirstHedgeCents(cur, maxCost), tok, ts, size)
              ELSE gs
         ELSE gs

AllFilled(pairs) == \A k \in DOMAIN pairs : pairs[k].hedgeOrder.isFilled

\* faulty variant: the fill test without the isFilled guard
HedgeReached_NoGuard(pair, oppositePriceCents) ==
    oppositePriceCents <= RoundCents(pair.hedgeOrder.price)

\* lines 234-247 for one pair
HedgeReached(pair, oppositePriceCents) ==
    /\ ~pair.hedgeOrder.isFilled
    /\ oppositePriceCents <= RoundCents(pair.hedgeOrder.price)

\* faulty variant: the fill is recorded without its timestamp
FillPair_NoTimestamp(pair, ts) == [pair EXCEPT !.hedgeOrder.isFilled = TRUE]

FillPair(pair, ts) ==
    [pair EXCEPT !.hedgeOrder.isFilled = TRUE, !.hedgeOrder.timestamp = ts]

\* lines 233-248: levelState.orderPairs.forEach, from pair k on
RECURSIVE FillLevel(_, _, _, _)
FillLevel(state, k, oppositePriceCents, ts) ==
    IF k > Len(state.orderPairs) THEN state
    ELSE IF HedgeReached(state.orderPairs[k], oppositePriceCents)
         THEN LET pairs == [state.orderPairs EXCEPT ![k] = FillPair(@, ts)]
                  st == [state EXCEPT !.orderPairs = pairs,
                                      !.hedgeFilled = IF AllFilled(pairs) THEN TRUE ELSE @]
              IN  FillLevel(st, k + 1, oppositePriceCents, ts)
         ELSE FillLevel(state, k + 1, oppositePriceCents, ts)

\* lines 230-249: gridLevels.forEach
FillStep(gs, oppositePriceCents, ts) ==
    [l \in DOMAIN gs |-> FillLevel(gs[l], 1, oppositePriceCents, ts)]

\* Array.from(gridStates.values())
StatesArray(gs, levels) == [k \in DOMAIN levels |-> gs[levels[k]]]

(***************************************************************************)
(* calculateGridHedgeStrategy: aggregation and settlement                   *)
(***************************************************************************)
RECURSIVE FlattenPairs(_, _)
FlattenPairs(states, k) ==
    IF k > Len(states) THEN <<>>
    ELSE states[k].orderPairs \o FlattenPairs(states, k + 1)

\* lines 307-311: cost of one pair, in mills
PairCost(pair) ==
    pair.entryOrder.price * pair.entryOrder.size
    + (IF pair.hedgeOrder.isFilled THEN pair.hedgeOrder.price * pair.hedgeOrder.size ELSE 0)

HedgeCount(pair) == IF pair.hedgeOrder.isFilled THEN 1 ELSE 0

RECURSIVE SumCost(_, _)
SumCost(pairs, k) ==
    IF k > Len(pairs) THEN 0 ELSE PairCost(pairs[k]) + SumCost(pairs, k + 1)

RECURSIVE SumHedges(_, _)
SumHedges(pairs, k) ==
    IF k > Len(pairs) THEN 0 ELSE HedgeCount(pairs[k]) + SumHedges(pairs, k + 1)

\* faulty variant: each token is valued 1 only when strictly higher
Settlement_Strict(lastData) ==
    [up |-> IF lastData.upTokenPrice > lastData.downTokenPrice THEN 1 ELSE 0,
     down |-> IF lastData.downTokenPrice > lastData.upTokenPrice THEN 1 ELSE 0]

\* lines 343-350
Settlement(lastData) ==
    IF lastData.upTokenPrice > lastData.downTokenPrice
    THEN [up |-> 1, down |-> 0]
    ELSE [up |-> 0, down |-> 1]

TokenValue(s, tok) == IF tok = "up" THEN s.up ELSE s.down

\* faulty variant: a filled hedge is valued as the entry token
PairValue_HedgeAsEntry(pair, s) ==
    1000 * TokenValue(s, pair.entryOrder.tokenType) * pair.entryOrder.size
    + (IF pair.hedgeOrder.isFilled
       THEN 1000 * TokenValue(s, pair.entryOrder.tokenType) * pair.hedgeOrder.size
       ELSE 0)

\* lines 360-376: settlement value of one pair, in mills
PairValue(pair, s) ==
    1000 * TokenValue(s, pair.entryOrder.tokenType) * pair.entryOrder.size
    + (IF pair.hedgeOrder.isFilled
       THEN 1000 * TokenValue(s, pair.hedgeOrder.tokenType) * pair.hedgeOrder.size
       ELSE 0)

\* lines 296-337: orderPoints keyed by level
OrderPoints(ups, downs, levels) ==
    LET used == { k \in DOMAIN levels : Len(ups[k].orderPairs) > 0 \/ Len(downs[k].orderPairs) > 0 }
    IN  [l \in { levels[k] : k \in used } |->
            LET k == CHOOSE k \in used : levels[k] = l
            IN  ups[k].orderPairs \o downs[k].orderPairs]

EmptyResult ==
    [status |-> "ok", totalProfit |-> 0, totalCost |-> 0, finalValue |-> 0,
     totalEntries |-> 0, totalHedgesFilled |-> 0, gridLevelsUsed |-> {},
     orderPoints |-> <<>>]

ErrorResult == [status |-> "TypeError"]

RECURSIVE SumValue(_, _, _)
SumValue(pairs, k, s) ==
    IF k > Len(pairs) THEN 0 ELSE PairValue(pairs[k], s) + SumValue(pairs, k + 1, s)

GridResult(ups, downs, levels, s) ==
    LET pairs == FlattenPairs(ups, 1) \o FlattenPairs(downs, 1)
        totalCost == SumCost(pairs, 1)
        finalValue == SumValue(pairs, 1, s)
        points == OrderPoints(ups, downs, levels)
    IN  [status |-> "ok",
         totalProfit |-> RoundCents(finalValue - totalCost),
         totalCost |-> RoundCents(totalCost),
         finalValue |-> RoundCents(finalValue),
         totalEntries |-> Len(pairs),
         totalHedgesFilled |-> SumHedges(pairs, 1),
         gridLevelsUsed |-> DOMAIN points,
         orderPoints |-> points]

(***************************************************************************)
(* calculatePrePurchasedSellStrategy (prices in cents, timestamps as above) *)
(***************************************************************************)
NoOrder == <<>>

NoResult == [status |-> "none"]

\* faulty variant: the early return is never taken
IsEmptyInput_Never(data) == FALSE

\* line 269 (and line 54 / line 56 of the two sibling evaluators)
IsEmptyInput(data) == Len(data) = 0

DefaultTargetTotal == 105
DefaultSellThreshold == 65

SellPriceCents(price) == 100 - RoundCents(price)

EmptySellResult ==
    [status |-> "ok", totalProfit |-> 0, totalCost |-> 0, finalValue |-> 0,
     firstSellOrder |-> NoOrder, secondSellLimitOrder |-> NoOrder, totalReceived |-> 0]

SellStart == [firstSellOrder |-> NoOrder, secondSellLimitOrder |-> NoOrder, totalReceived |-> 0]

\* lines 80-125: sell the first token that reaches the threshold
SellFirst(st, data, ts, targetTotal, sellThreshold, size) ==
    LET upSellPriceCents == SellPriceCents(data.upTokenPrice)
        downSellPriceCents == SellPriceCents(data.downTokenPrice)
        Sold(tok, price) ==
            [firstSellOrder |-> << [price |-> price, timestamp |-> ts, size |-> size,
                                    tokenType |-> tok] >>,
             secondSellLimitOrder |-> << [price |-> targetTotal - sellThreshold,
                                          timestamp |-> Null, size |-> size,
                                          tokenType |-> IF tok = "up" THEN "down" ELSE "up",
                                          isFilled |-> FALSE] >>,
             totalReceived |-> st.totalReceived + price * size]
    IN  IF st.firstSellOrder # NoOrder THEN st
        ELSE IF upSellPriceCents >= sellThreshold THEN Sold("up", upSellPriceCents)
        ELSE IF downSellPriceCents >= sellThreshold THEN Sold("down", downSellPriceCents)
        ELSE st

\* line 132: Math.round(secondSellLimitOrder.price * 100), price being in cents
LimitPriceCents(order) == order.price * 100

\* lines 128-141: fill of the limit order
SellLimit(st, data, ts) ==
    IF st.secondSellLimitOrder # NoOrder /\ ~st.secondSellLimitOrder[1].isFilled
    THEN LET order == st.secondSellLimitOrder[1]
             currentPriceCents == IF order.tokenType = "up"
                                  THEN SellPriceCents(data.upTokenPrice)
                                  ELSE SellPriceCents(data.downTokenPrice)
         IN  IF currentPriceCents <= LimitPriceCents(order)
             THEN [st EXCEPT !.secondSellLimitOrder =
                                 << [order EXCEPT !.isFilled = TRUE, !.timestamp = ts] >>,
                             !.totalReceived = @ + order.price * order.size]
             ELSE st
    ELSE st

\* lines 74-142: the loop, from tick k on
RECURSIVE SellLoop(_, _, _, _, _, _)
SellLoop(st, data, k, targetTotal, sellThreshold, size) ==
    IF k > Len(data) THEN st
    ELSE SellLoop(SellLimit(SellFirst(st, data[k], k, targetTotal, sellThreshold, size),
                            data[k], k),
                  data, k + 1, targetTotal, sellThreshold, size)

\* lines 144-171; amounts are kept in thousandths of a cent until rounded
SellResult(st, data, size) ==
    LET lastData == data[Len(data)]
        received == 1000 * st.totalReceived
        unfilled == /\ st.firstSellOrder # NoOrder
                    /\ st.secondSellLimitOrder # NoOrder
                    /\ ~st.secondSellLimitOrder[1].isFilled
        finalValue ==
            IF unfilled
            THEN received
                 + (IF st.secondSellLimitOrder[1].tokenType = "up"
                    THEN lastData.upTokenPrice ELSE lastData.downTokenPrice)
                   * st.secondSellLimitOrder[1].size
            ELSE IF st.firstSellOrder = NoOrder
                 THEN (200000 - lastData.upTokenPrice - lastData.downTokenPrice) * size
                 ELSE received
        initialCost == 100000 * size
    IN  IF Len(data) = 0 /\ (unfilled \/ st.firstSellOrder = NoOrder)
        THEN [status |-> "TypeError"]
        ELSE [status |-> "ok",
              totalProfit |-> (finalValue - initialCost + 500) \div 1000,
              totalCost |-> (initialCost + 500) \div 1000,
              finalValue |-> (finalValue + 500) \div 1000,
              firstSellOrder |-> st.firstSellOrder,
              secondSellLimitOrder |-> st.secondSellLimitOrder,
              totalReceived |-> st.totalReceived]

calculatePrePurchasedSellStrategy(data, targetTotal, sellThreshold, size) ==
    IF IsEmptyInput(data) THEN EmptySellResult
    ELSE SellResult(SellLoop(SellStart, data, 1, targetTotal, sellThreshold, size),
                    data, size)

(***************************************************************************)
(* calculateNewHedgeStrategy (prices in cents)                              *)
(***************************************************************************)
DefaultPriceDiff == 100
DefaultTimeTillEnd == 300
DefaultTargetPrice == 50
DefaultMaxTotalCent == 100
HourlySeconds == 3600
QuarterSeconds == 900

\* seconds between two recorded ticks of the explored inputs
TickSeconds == 300

Abs(x) == IF x < 0 THEN -x ELSE x

EmptyHedgeResult ==
    [status |-> "ok", totalProfit |-> 0, totalCost |-> 0, finalValue |-> 0,
     totalEntries |-> 0, totalHedgesFilled |-> 0, order |-> NoOrder, hedgeOrder |-> NoOrder]

HedgeStart ==
    [order |-> NoOrder, hedgeOrder |-> NoOrder, hedgeFilled |-> FALSE, hasEntered |-> FALSE,
     totalCost |-> 0, totalEntries |-> 0, totalHedgesFilled |-> 0]

\* lines 87-168: one iteration
HedgeTick(st, data, k, priceDiff, timeTillEnd, targetPrice, maxTotalCent, size, duration) ==
    LET remainingSeconds == duration - (k - 1) * TickSeconds
        upIsLosing == data.upTokenPrice <= data.downTokenPrice
        losingSide == IF upIsLosing THEN "up" ELSE "down"
        winningSide == IF upIsLosing THEN "down" ELSE "up"
        losingSidePriceCents == IF upIsLosing THEN RoundCents(data.upTokenPrice)
                                ELSE RoundCents(data.downTokenPrice)
    IN  IF st.hasEntered /\ st.order # NoOrder /\ st.hedgeOrder # NoOrder /\ ~st.hedgeFilled
        THEN LET hedge == st.hedgeOrder[1]
                 hedgeSidePriceCents == IF hedge.tokenType = "up"
                                        THEN RoundCents(data.upTokenPrice)
                                        ELSE RoundCents(data.downTokenPrice)
             IN  IF hedgeSidePriceCents <= hedge.price
                 THEN [st EXCEPT !.totalCost = @ + hedge.price * hedge.size,
                                 !.totalHedgesFilled = @ + 1,
                                 !.hedgeFilled = TRUE,
                                 !.hedgeOrder = << [hedge EXCEPT !.timestamp = k,
                                                                 !.isFilled = TRUE] >>]
                 ELSE st
        ELSE IF st.hasEntered \/ ~data.hasBias THEN st
        ELSE IF /\ Abs(data.coinPriceBias) < priceDiff
                /\ remainingSeconds > timeTillEnd
                /\ losingSidePriceCents < targetPrice
             THEN [st EXCEPT !.order = << [price |-> losingSidePriceCents, timestamp |-> k,
                                           size |-> size, tokenType |-> losingSide,
                                           isFilled |-> TRUE] >>,
                             !.totalCost = @ + losingSidePriceCents * size,
                             !.totalEntries = @ + 1,
                             !.hedgeOrder = << [price |-> maxTotalCent - losingSidePriceCents,
                                                timestamp |-> k, size |-> size,
                                                tokenType |-> winningSide,
                                                isFilled |-> FALSE] >>,
                             !.hasEntered = TRUE]
             ELSE st

RECURSIVE HedgeLoop(_, _, _, _, _, _, _, _, _)
HedgeLoop(st, data, k, priceDiff, timeTillEnd, targetPrice, maxTotalCent, size, duration) ==
    IF k > Len(data) THEN st
    ELSE HedgeLoop(HedgeTick(st, data[k], k, priceDiff, timeTillEnd, targetPrice,
                             maxTotalCent, size, duration),
                   data, k + 1, priceDiff, timeTillEnd, targetPrice, maxTotalCent, size,
                   duration)

\* lines 170-202: outcome side, payout, result (amounts in cents)
HedgeResult(st, data) ==
    LET lastData == data[Len(data)]
        outcomeSide == IF lastData.hasBias
                       THEN (IF lastData.coinPriceBias >= 0 THEN "up" ELSE "down")
                       ELSE (IF lastData.upTokenPrice >= lastData.downTokenPrice
                             THEN "up" ELSE "down")
        orderValue == IF st.order # NoOrder
                      THEN (IF st.order[1].tokenType = outcomeSide THEN 100 ELSE 0)
                           * st.order[1].size
                      ELSE 0
        hedgeValue == IF st.hedgeOrder # NoOrder /\ st.hedgeFilled
                      THEN (IF st.hedgeOrder[1].tokenType = outcomeSide THEN 100 ELSE 0)
                           * st.hedgeOrder[1].size
                      ELSE 0
        totalFinalValue == orderValue + hedgeValue
    IN  [status |-> "ok",
         totalProfit |-> totalFinalValue - st.totalCost,
         totalCost |-> st.totalCost,
         finalValue |-> totalFinalValue,
         totalEntries |-> st.totalEntries,
         totalHedgesFilled |-> st.totalHedgesFilled,
         order |-> st.order,
         hedgeOrder |-> st.hedgeOrder]

calculateNewHedgeStrategy(data, priceDiff, timeTillEnd, targetPrice, maxTotalCent, size, eventType) ==
    IF IsEmptyInput(data) THEN EmptyHedgeResult
    ELSE IF Len(data) = 0 THEN [status |-> "TypeError"]
    ELSE HedgeResult(HedgeLoop(HedgeStart, data, 1, priceDiff, timeTillEnd, targetPrice,
                               maxTotalCent, size,
                               IF eventType = "15min" THEN QuarterSeconds ELSE HourlySeconds),
                     data)

(***************************************************************************)
(* The clock of the host and getCurrent15MinSlug.  An instant is a number   *)
(* of seconds since the epoch.  The Date methods getMinutes and setMinutes  *)
(* work on the local time of the host, whose time zone is an offset from    *)
(* UTC in seconds before and after one transition.                          *)
(***************************************************************************)
\* 2025-11-02T06:00:00Z, when America/New_York leaves daylight saving time
FallBack == 1762063200

Zone(name, before, after) == [name |-> name, before |-> before, at |-> FallBack, after |-> after]

HostUTC == Zone("UTC", 0, 0)

Zones == { HostUTC, Zone("Asia/Kolkata", 19800, 19800),
           Zone("America/New_York", -14400, -18000) }

\* the instants explored: four in each quarter of an hour from 05:00:00Z on
Instants ==
    { FallBack - 3600 + q * 900 + e : q \in 0..(MaxQuarters - 1), e \in {0, 1, 450, 899} }

Offset(zone, t) == IF t < zone.at THEN zone.before ELSE zone.after

LocalTime(zone, t) == t + Offset(zone, t)

\* the instant of a local time: the earliest one when the local time occurs
\* twice, the offset before the transition when it never occurs
UTC(zone, tlocal) ==
    LET possibleInstants ==
            { u \in {tlocal - zone.before, tlocal - zone.after} : LocalTime(zone, u) = tlocal }
    IN  IF possibleInstants = {} THEN tlocal - zone.before
        ELSE CHOOSE u \in possibleInstants : \A v \in possibleInstants : u <= v

\* now.getMinutes()
getMinutes(zone, t) == (LocalTime(zone, t) \div 60) % 60

\* date.setMinutes(min, 0, 0), then date.getTime() in seconds
setMinutes(zone, t, min) == UTC(zone, (LocalTime(zone, t) \div 3600) * 3600 + min * 60)

Symbols == {"btc/usd", "eth/usd", "sol/usd", "xrp/usd"}

\* symbol.split('/')[0]
cryptoShort(symbol) ==
    CASE symbol = "btc/usd" -> "btc"
      [] symbol = "eth/usd" -> "eth"
      [] symbol = "sol/usd" -> "sol"
      [] OTHER -> "xrp"

\* the slug `${cryptoShort}-updown-15m-${timestamp}` by its two parts
getCurrent15MinSlug(symbol, zone, now) ==
    LET minutes == getMinutes(zone, now)
        roundedMinutes == (minutes \div 15) * 15
        periodStart == setMinutes(zone, now, roundedMinutes)
    IN  [cryptoShort |-> cryptoShort(symbol), timestamp |-> periodStart]

(***************************************************************************)
(* Feed connections and the trading bot: the objects after construction.    *)
(* A socket is named by the order of its creation; Null is no socket.  A    *)
(* contract descriptor is named by the index of its period, Null is none.   *)
(***************************************************************************)
Sockets == 1..MaxSockets

Classes == {"CoinMonitor", "MarketMonitor", "UserMonitor"}

Contracts == 1..MaxPeriods

Versions == {1, 2}

\* a WebSocket not created yet; sent lists the frames sent on the socket
NoSocket == [readyState |-> "NONE", listeners |-> FALSE, sent |-> <<>>]

\* the fields the three monitor classes declare, with their initialisers;
\* currentCoinPrice is the field of CoinMonitor
NewFeed(class) ==
    [class |-> class, ws |-> Null, isConnecting |-> FALSE, pingCronTask |-> Null,
     timers |-> {}, shouldReconnect |-> TRUE, reconnectTimer |-> FALSE, pending |-> 0,
     currentCoinPrice |-> <<>>]

\* MarketMonitor: contract fields; fetching is the period whose descriptor
\* has been requested and not yet delivered
NewMarket ==
    [curMarketInfo |-> Null, yesPrice |-> <<>>, noPrice |-> <<>>,
     fetching |-> Null, scheduled |-> FALSE,
     startCoinPrice |-> <<>>, currentCoinPrice |-> <<>>, symbol |-> "btc/usd"]

\* TradingBot fields; version tells the two revisions of the class apart
NewBot(version, privateKey) ==
    [version |-> version, privateKey |-> privateKey, pc |-> "new",
     handlers |-> FALSE, currentSlug |-> Null, firstOrder |-> <<>>,
     secondOrder |-> <<>>, redis |-> <<>>]

\* period is the index of the period the wall clock is in, op the last call
\* or event, disconnected whether disconnect() was the last explicit call,
\* everDisconnected whether disconnect() was ever called explicitly, mark
\* the number of sockets created before the last close or failure; socket
\* is the socket the last inbound frame arrived on, pong the socket a PONG
\* was sent on and events the names of the events emitted, all three in the
\* last step only; dropped is the socket of the last frame that did not
\* parse and frame the frame of the last step; now and zone are the clock
\* and the time zone of the host and slug what getCurrentSlug returned last
NoObs ==
    [period |-> 1, op |-> "", mark |-> 0, disconnected |-> FALSE, everDisconnected |-> FALSE,
     exited |-> FALSE, raised |-> "", emitted |-> <<>>,
     socket |-> Null, pong |-> Null, events |-> {}, dropped |-> Null, frame |-> <<>>,
     now |-> FallBack, zone |-> HostUTC, slug |-> <<>>]

FeedIdle ==
    /\ sockets = [s \in Sockets |-> NoSocket]
    /\ feed = NewFeed("MarketMonitor")
    /\ market = NewMarket
    /\ bot = NewBot(1, TRUE)
    /\ obs = NoObs

(***************************************************************************)
(* State machine                                                            *)
(***************************************************************************)
NoSettle == [up |-> 0, down |-> 0]

Init ==
    /\ priceData \in PriceSeqs
    /\ maxTotalCost \in MaxTotalCosts
    /\ gridGap \in GridGaps
    /\ orderSize \in OrderSizes
    /\ enableRebuy \in BOOLEAN
    /\ pc = "call"
    /\ tokenType = "up"
    /\ gridLevels = <<>>
    /\ gridStates = <<>>
    /\ previousGridLevel = Null
    /\ currentGridLevel = Null
    /\ i = 1
    /\ upStates = <<>>
    /\ downStates = <<>>
    /\ settle = NoSettle
    /\ result = NoResult
    /\ sellResult = NoResult
    /\ hedgeResult = NoResult
    /\ runs = <<>>
    /\ FeedIdle

\* lines 269-279: early return on an empty tick sequence
ReturnEmpty ==
    /\ pc = "call"
    /\ IsEmptyInput(priceData)
    /\ result' = EmptyResult
    /\ pc' = "done"
    /\ UNCHANGED <<priceData, maxTotalCost, gridGap, orderSize, enableRebuy, tokenType,
                   gridLevels, gridStates, previousGridLevel, currentGridLevel, i,
                   upStates, downStates, settle, sellResult, hedgeResult, runs>>
    /\ UNCHANGED feedVars

\* lines 282, 285 and 98-108: grid levels, then processToken('up') starts
BeginUp ==
    /\ pc = "call"
    /\ ~IsEmptyInput(priceData)
    /\ gridLevels' = getGridLevels(gridGap, maxTotalCost)
    /\ tokenType' = "up"
    /\ gridStates' = NewGridStates(gridLevels')
    /\ previousGridLevel' = Null
    /\ currentGridLevel' = Null
    /\ i' = 1
    /\ pc' = "entry"
    /\ UNCHANGED <<priceData, maxTotalCost, gridGap, orderSize, enableRebuy,
                   upStates, downStates, settle, result, sellResult, hedgeResult, runs>>
    /\ UNCHANGED feedVars

\* lines 112-226: one iteration up to the entry decision
EntryPhase ==
    /\ pc = "entry"
    /\ i <= Len(priceData)
    /\ LET cur == CurrentLevel(priceData[i], tokenType, gridLevels, previousGridLevel)
       IN  /\ currentGridLevel' = cur
           /\ gridStates' = EntryStep(gridStates, previousGridLevel, cur, tokenType, i,
                                      orderSize, maxTotalCost)
    /\ pc' = "fill"
    /\ UNCHANGED <<priceData, maxTotalCost, gridGap, orderSize, enableRebuy, tokenType,
                   gridLevels, previousGridLevel, i, upStates, downStates, settle,
                   result, sellResult, hedgeResult, runs>>
    /\ UNCHANGED feedVars

\* lines 228-254: hedge fills of the iteration, then previousGridLevel
FillPhase ==
    /\ pc = "fill"
    /\ gridStates' = FillStep(gridStates,
                              RoundCents(OppositePrice(priceData[i], tokenType)), i)
    /\ previousGridLevel' = IF currentGridLevel # Null THEN currentGridLevel
                            ELSE previousGridLevel
    /\ i' = i + 1
    /\ pc' = "entry"
    /\ UNCHANGED <<priceData, maxTotalCost, gridGap, orderSize, enableRebuy, tokenType,
                   gridLevels, currentGridLevel, upStates, downStates, settle,
                   result, sellResult, hedgeResult, runs>>
    /\ UNCHANGED feedVars

\* line 257 for 'up', then line 286 and 98-108: processToken('down') starts
ReturnUp ==
    /\ pc = "entry"
    /\ i > Len(priceData)
    /\ tokenType = "up"
    /\ upStates' = StatesArray(gridStates, gridLevels)
    /\ tokenType' = "down"
    /\ gridStates' = NewGridStates(gridLevels)
    /\ previousGridLevel' = Null
    /\ currentGridLevel' = Null
    /\ i' = 1
    /\ UNCHANGED <<priceData, maxTotalCost, gridGap, orderSize, enableRebuy, pc,
                   gridLevels, downStates, settle, result, sellResult, hedgeResult, runs>>
    /\ UNCHANGED feedVars

\* line 257 for 'down'
ReturnDown ==
    /\ pc = "entry"
    /\ i > Len(priceData)
    /\ tokenType = "down"
    /\ downStates' = StatesArray(gridStates, gridLevels)
    /\ pc' = "settle"
    /\ UNCHANGED <<priceData, maxTotalCost, gridGap, orderSize, enableRebuy, tokenType,
                   gridLevels, gridStates, previousGridLevel, currentGridLevel, i,
                   upStates, settle, result, sellResult, hedgeResult, runs>>
    /\ UNCHANGED feedVars

\* lines 288-421: totals, settlement valuation, result
Finish ==
    /\ pc = "settle"
    /\ IF Len(priceData) = 0
       THEN /\ settle' = settle
            /\ result' = ErrorResult
       ELSE LET s == Settlement(priceData[Len(priceData)])
            IN  /\ settle' = s
                /\ result' = GridResult(upStates, downStates, gridLevels, s)
    /\ pc' = "done"
    /\ UNCHANGED <<priceData, maxTotalCost, gridGap, orderSize, enableRebuy, tokenType,
                   gridLevels, gridStates, previousGridLevel, currentGridLevel, i,
                   upStates, downStates, sellResult, hedgeResult, runs>>
    /\ UNCHANGED feedVars

\* the pre-purchased-sell evaluation of the same ticks
EvalSell ==
    /\ pc = "done"
    /\ sellResult = NoResult
    /\ sellResult' = calculatePrePurchasedSellStrategy(priceData, DefaultTargetTotal,
                                                       DefaultSellThreshold, orderSize)
    /\ UNCHANGED <<priceData, maxTotalCost, gridGap, orderSize, enableRebuy, pc, tokenType,
                   gridLevels, gridStates, previousGridLevel, currentGridLevel, i,
                   upStates, downStates, settle, result, hedgeResult, runs>>
    /\ UNCHANGED feedVars

\* the new-hedge evaluation of the same ticks
EvalNewHedge ==
    /\ pc = "done"
    /\ sellResult # NoResult
    /\ hedgeResult = NoResult
    /\ hedgeResult' = calculateNewHedgeStrategy(priceData, DefaultPriceDiff,
                                                DefaultTimeTillEnd, DefaultTargetPrice,
                                                DefaultMaxTotalCent, orderSize, "hourly")
    /\ UNCHANGED <<priceData, maxTotalCost, gridGap, orderSize, enableRebuy, pc, tokenType,
                   gridLevels, gridStates, previousGridLevel, currentGridLevel, i,
                   upStates, downStates, settle, result, sellResult, runs>>
    /\ UNCHANGED feedVars

Next ==
    \/ ReturnEmpty
    \/ BeginUp
    \/ EntryPhase
    \/ FillPhase
    \/ ReturnUp
    \/ ReturnDown
    \/ Finish
    \/ EvalSell
    \/ EvalNewHedge

Spec == Init /\ [][Next]_vars

(***************************************************************************)
(* Repeated evaluation: the caller evaluates again after its inputs change  *)
(* (the effect hooks of the App component re-run the evaluators whenever    *)
(* priceData or a parameter is replaced).                                   *)
(***************************************************************************)
\* quote pairs of the repeated evaluations
RerunTicks == { Tick(550, 450, TRUE, 5), Tick(600, 370, TRUE, 40) }

RerunSeqs == SeqsUpTo(RerunTicks, MaxRerunTicks)

Args == <<priceData, maxTotalCost, gridGap, orderSize>>

InitRerun ==
    /\ priceData \in RerunSeqs
    /\ maxTotalCost \in MaxTotalCosts
    /\ gridGap \in GridGaps
    /\ orderSize = 1
    /\ enableRebuy = TRUE
    /\ pc = "call"
    /\ tokenType = "up"
    /\ gridLevels = <<>>
    /\ gridStates = <<>>
    /\ previousGridLevel = Null
    /\ currentGridLevel = Null
    /\ i = 1
    /\ upStates = <<>>
    /\ downStates = <<>>
    /\ settle = NoSettle
    /\ result = NoResult
    /\ sellResult = NoResult
    /\ hedgeResult = NoResult
    /\ runs = <<>>
    /\ FeedIdle

\* the evaluators have returned; the caller replaces its inputs and calls
\* again.  Nothing of the finished evaluation is cleared by the caller.
Reselect ==
    /\ pc = "done"
    /\ hedgeResult # NoResult
    /\ Len(runs) < MaxRuns
    /\ runs' = Append(runs, [args |-> Args, result |-> result])
    /\ priceData' \in RerunSeqs
    /\ maxTotalCost' \in MaxTotalCosts
    /\ result' = NoResult
    /\ sellResult' = NoResult
    /\ hedgeResult' = NoResult
    /\ pc' = "call"
    /\ UNCHANGED <<gridGap, orderSize, enableRebuy, tokenType, gridLevels, gridStates,
                   previousGridLevel, currentGridLevel, i, upStates, downStates, settle>>
    /\ UNCHANGED feedVars

NextRerun == Next \/ Reselect

SpecRerun == InitRerun /\ [][NextRerun]_vars

(***************************************************************************)
(* Properties                                                               *)
(***************************************************************************)
Pairs(l) == gridStates[l].orderPairs

LastPair(pairs) == pairs[Len(pairs)]

\* the observation of the token being processed at tick k, in mills
Obs(k) == CurrentPrice(priceData[k], tokenType)

LevelPrice(l) == CentsToPrice(l)

\* the entry decision of the current iteration appends a pair at level l
Appended(l) ==
    /\ pc = "entry"
    /\ pc' = "fill"
    /\ Len(gridStates'[l].orderPairs) = Len(Pairs(l)) + 1

\* C1: a pair is appended to a level that already holds pairs only when the
\* hedge of the level's latest pair is already filled.
C1_ReentryOnlyAfterLatestHedgeFilled ==
    [][\A l \in DOMAIN gridStates :
          (Appended(l) /\ Len(Pairs(l)) > 0) => LastPair(Pairs(l)).hedgeOrder.isFilled]_vars

\* C2: a pair is created at level l at tick i only if the token's previous
\* observation was strictly below l (the first tick has no previous
\* observation and is not judged).
C2_EntryOnlyFromBelow ==
    [][\A l \in DOMAIN gridStates :
          Appended(l) => (i = 1 \/ Obs(i - 1) < LevelPrice(l))]_vars

\* a level that was never entered, or whose latest hedge is filled
Eligible(l) == Len(Pairs(l)) = 0 \/ LastPair(Pairs(l)).hedgeOrder.isFilled

\* C3: whenever two consecutive observations satisfy previous < l <= current
\* and l is eligible, exactly one pair is created at l at that tick.
C3_EveryAscendingCrossingEnters ==
    [][(pc = "entry" /\ pc' = "fill" /\ i >= 2) =>
          \A l \in DOMAIN gridStates :
              (Obs(i - 1) < LevelPrice(l) /\ LevelPrice(l) <= Obs(i) /\ Eligible(l))
                  => Appended(l)]_vars

\* C4: every recorded pair has hedge price max(0, maxTotalCost - level) and
\* its hedge on the opposite token from its entry.
C4_HedgePriceFormula ==
    \A l \in DOMAIN gridStates : \A k \in DOMAIN Pairs(l) :
        /\ Pairs(l)[k].hedgeOrder.price = CentsToPrice(Max(0, maxTotalCost - l))
        /\ Pairs(l)[k].hedgeOrder.tokenType # Pairs(l)[k].entryOrder.tokenType

C6_HedgeFillsAtMostOnce ==
    [][(pc \in {"entry", "fill"} /\ pc' \in {"entry", "fill"} /\ tokenType' = tokenType) =>
          \A l \in DOMAIN gridStates :
              /\ Len(gridStates'[l].orderPairs) >= Len(Pairs(l))
              /\ \A k \in DOMAIN gridStates'[l].orderPairs :
                    LET new == gridStates'[l].orderPairs[k].hedgeOrder
                    IN  IF k > Len(Pairs(l))
                        THEN ~new.isFilled /\ new.timestamp = Null
                        ELSE LET old == Pairs(l)[k].hedgeOrder
                             IN  /\ old.isFilled => new = old
                                 /\ ~old.isFilled =>
                                        \/ new = old
                                        \/ new = [old EXCEPT !.isFilled = TRUE,
                                                             !.timestamp = i]]_vars

\* C6 witness: a hedge filled at an earlier tick has since met another tick
\* whose opposite price is again at or below its price.
C6_Witness ==
    /\ pc = "entry"
    /\ i >= 3
    /\ \E l \in DOMAIN gridStates : \E k \in DOMAIN Pairs(l) :
          /\ Pairs(l)[k].hedgeOrder.isFilled
          /\ Pairs(l)[k].hedgeOrder.timestamp < i - 1
          /\ RoundCents(OppositePrice(priceData[i - 1], tokenType))
                 <= RoundCents(Pairs(l)[k].hedgeOrder.price)

\* C7: settlement values exactly one token at 1 and the other at 0, and the
\* token with the strictly higher final price is the one valued 1.
C7_SettlementExactlyOneWinner ==
    (pc = "done" /\ Len(priceData) > 0) =>
        LET lastData == priceData[Len(priceData)]
        IN  /\ {settle.up, settle.down} = {0, 1}
            /\ lastData.upTokenPrice > lastData.downTokenPrice => settle.up = 1
            /\ lastData.downTokenPrice > lastData.upTokenPrice => settle.down = 1

\* C7 witness: a settled evaluation whose final prices are equal.
C7_Witness ==
    /\ pc = "done"
    /\ Len(priceData) > 0
    /\ priceData[Len(priceData)].upTokenPrice = priceData[Len(priceData)].downTokenPrice
    /\ result.totalEntries > 0

SameOutcome(r1, r2) ==
    IF r1.status = "ok" /\ r2.status = "ok"
    THEN /\ r1.totalProfit = r2.totalProfit
         /\ r1.totalEntries = r2.totalEntries
         /\ r1.totalHedgesFilled = r2.totalHedgesFilled
    ELSE r1.status = r2.status

\* C8: evaluating the same ticks with the same parameters again, whatever
\* was evaluated in between, returns the same totalProfit, totalEntries and
\* totalHedgesFilled, and an evaluation never changes its input sequence.
C8_RepeatedEvaluationAgrees ==
    /\ [](\A a \in DOMAIN runs :
             /\ \A b \in DOMAIN runs :
                    runs[a].args = runs[b].args => SameOutcome(runs[a].result, runs[b].result)
             /\ (pc = "done" /\ runs[a].args = Args) => SameOutcome(runs[a].result, result))
    /\ [][pc # "done" => priceData' = priceData]_vars

\* C8 witness: the third evaluation repeats the first one after a different
\* second one, and it recorded entries.
C8_Witness ==
    /\ Len(runs) = 2
    /\ pc = "done"
    /\ runs[1].args = Args
    /\ runs[2].args # Args
    /\ Len(runs[2].args[1]) > 0
    /\ result.totalEntries > 0
    /\ result.totalHedgesFilled > 0

Scenario == << Tick(500, 500, FALSE, 0), Tick(560, 440, TRUE, 20), Tick(400, 600, TRUE, -20) >>

\* C9: on the scenario with gridGap = 5 and maxTotalCost = 97 the up token
\* has an entry at 55c of size orderSize at the second tick whose hedge on
\* the down token at 42c is unfilled at the end.
C9_ScenarioEntryAt55 ==
    (pc = "done" /\ priceData = Scenario /\ gridGap = 5 /\ maxTotalCost = 97) =>
        \E k \in DOMAIN upStates[1].orderPairs :
            LET pair == upStates[1].orderPairs[k]
            IN  /\ gridLevels[1] = 55
                /\ pair.entryOrder = [price |-> 550, timestamp |-> 2, size |-> orderSize,
                                      tokenType |-> "up", isReEntry |-> FALSE]
                /\ pair.hedgeOrder = [price |-> 420, timestamp |-> Null, size |-> orderSize,
                                      tokenType |-> "down", isFilled |-> FALSE]

\* C10: an evaluation of zero ticks returns zero profit, zero entries and no
\* hedges without an error, in all three evaluators.
C10_EmptyInputYieldsZero ==
    Len(priceData) = 0 =>
        /\ result # NoResult =>
              /\ result.status = "ok"
              /\ result.totalProfit = 0
              /\ result.totalEntries = 0
              /\ result.totalHedgesFilled = 0
              /\ DOMAIN result.orderPoints = {}
        /\ sellResult # NoResult =>
              /\ sellResult.status = "ok"
              /\ sellResult.totalProfit = 0
              /\ sellResult.firstSellOrder = NoOrder
              /\ sellResult.secondSellLimitOrder = NoOrder
        /\ hedgeResult # NoResult =>
              /\ hedgeResult.status = "ok"
              /\ hedgeResult.totalProfit = 0
              /\ hedgeResult.totalEntries = 0
              /\ hedgeResult.totalHedgesFilled = 0
              /\ hedgeResult.order = NoOrder
              /\ hedgeResult.hedgeOrder = NoOrder

\* C10 witness: all three evaluators have returned for an empty tick sequence.
C10_Witness ==
    /\ Len(priceData) = 0
    /\ pc = "done"
    /\ result # NoResult
    /\ sellResult # NoResult
    /\ hedgeResult # NoResult

(***************************************************************************)
(* Feed connections (CoinMonitor, MarketMonitor, UserMonitor).  A method or *)
(* an event handler is an operator from the state of the objects before it  *)
(* runs to their state after it has run.                                    *)
(***************************************************************************)
World == [sockets |-> sockets, feed |-> feed, market |-> market, bot |-> bot, obs |-> obs]

Install(w) ==
    /\ sockets' = w.sockets
    /\ feed' = w.feed
    /\ market' = w.market
    /\ bot' = w.bot
    /\ obs' = w.obs
    /\ UNCHANGED gridVars

\* ws?.readyState === WebSocket.OPEN
IsOpen(w, s) == s # Null /\ w.sockets[s].readyState = "OPEN"

Free(w) == { s \in Sockets : w.sockets[s].readyState = "NONE" }

\* new WebSocket(url), with the listeners connect() registers on it
NewWebSocket(w) ==
    LET s == CHOOSE x \in Free(w) : \A y \in Free(w) : x <= y
    IN  [w EXCEPT !.feed.isConnecting = TRUE,
                  !.feed.ws = s,
                  !.sockets[s] = [readyState |-> "CONNECTING", listeners |-> TRUE,
                                  sent |-> <<>>]]

\* ws.send(frame)
Send(w, s, frame) == [w EXCEPT !.sockets[s].sent = Append(@, frame)]

\* ws.close(): a socket that is connecting or open starts closing
Close(w, s) ==
    [w EXCEPT !.sockets[s].readyState =
                  IF @ \in {"CONNECTING", "OPEN"} THEN "CLOSING" ELSE @]

\* a rejected promise or a thrown error
Raise(w, error) == [w EXCEPT !.obs.raised = error]

\* the heartbeat task is named by the socket whose open event started it;
\* a task already running is not stopped, only its reference is replaced
startPingTimer(w, s) ==
    [w EXCEPT !.feed.timers = @ \cup {s}, !.feed.pingCronTask = s]

stopPingTimer(w) ==
    IF w.feed.pingCronTask = Null THEN w
    ELSE [w EXCEPT !.feed.timers = @ \ {w.feed.pingCronTask},
                   !.feed.pingCronTask = Null]

\* ---- MarketMonitor -------------------------------------------------------
MarketMonitor_connect(w) ==
    IF w.feed.isConnecting \/ IsOpen(w, w.feed.ws) THEN w ELSE NewWebSocket(w)

\* the frame names the tokens of curMarketInfo as it is when the frame is sent
subscribeToMarket(w) ==
    IF ~IsOpen(w, w.feed.ws) THEN w
    ELSE Send(w, w.feed.ws, w.market.curMarketInfo)

\* 'open' listener of the socket s (isConnecting is left as it is)
MarketMonitor_onOpen(w, s) == startPingTimer(subscribeToMarket(w), s)

\* 'close' listener
MarketMonitor_onClose(w) ==
    MarketMonitor_connect([stopPingTimer(w) EXCEPT !.feed.isConnecting = FALSE,
                                                   !.feed.ws = Null])

MarketMonitor_disconnect(w) ==
    LET c == IF IsOpen(w, w.feed.ws) THEN Close(w, w.feed.ws) ELSE w
    IN  stopPingTimer([c EXCEPT !.feed.isConnecting = FALSE, !.feed.ws = Null])

\* ---- CoinMonitor ---------------------------------------------------------
CoinMonitor_connect(w) ==
    IF w.feed.isConnecting \/ IsOpen(w, w.feed.ws) THEN w ELSE NewWebSocket(w)

subscribeToPriceFeed(w) ==
    IF ~IsOpen(w, w.feed.ws) THEN w ELSE Send(w, w.feed.ws, Null)

CoinMonitor_onOpen(w, s) ==
    startPingTimer(subscribeToPriceFeed([w EXCEPT !.feed.isConnecting = FALSE]), s)

CoinMonitor_onClose(w) ==
    CoinMonitor_connect([stopPingTimer(w) EXCEPT !.feed.isConnecting = FALSE,
                                                 !.feed.ws = Null])

CoinMonitor_disconnect(w) ==
    LET a == stopPingTimer(w)
        s == a.feed.ws
        b == IF s = Null THEN a
             ELSE [Close(a, s) EXCEPT !.sockets[s].listeners = FALSE, !.feed.ws = Null]
    IN  [b EXCEPT !.feed.isConnecting = FALSE]

\* ---- UserMonitor ---------------------------------------------------------
\* connect() up to its await of the credentials
UserMonitor_connect(w) ==
    IF w.feed.isConnecting \/ IsOpen(w, w.feed.ws) THEN w
    ELSE IF ~w.bot.privateKey THEN Raise(w, "WALLET_PRIVATE_KEY not configured")
    ELSE [w EXCEPT !.feed.pending = @ + 1]

\* connect() after the credentials have arrived
UserMonitor_connected(w) == NewWebSocket([w EXCEPT !.feed.pending = @ - 1])

authenticate(w) ==
    IF ~IsOpen(w, w.feed.ws) THEN w ELSE Send(w, w.feed.ws, Null)

stopPing(w) ==
    IF w.feed.pingCronTask = Null THEN w
    ELSE [w EXCEPT !.feed.timers = @ \ {w.feed.pingCronTask},
                   !.feed.pingCronTask = Null]

startPing(w, s) ==
    [stopPing(w) EXCEPT !.feed.timers = @ \cup {s}, !.feed.pingCronTask = s]

scheduleReconnect(w) == [w EXCEPT !.feed.reconnectTimer = TRUE]

UserMonitor_onOpen(w, s) ==
    startPing(authenticate([w EXCEPT !.feed.isConnecting = FALSE]), s)

UserMonitor_onClose(w) ==
    LET a == stopPing([w EXCEPT !.feed.isConnecting = FALSE, !.feed.ws = Null])
    IN  IF a.feed.shouldReconnect THEN scheduleReconnect(a) ELSE a

UserMonitor_disconnect(w) ==
    LET a == stopPing([w EXCEPT !.feed.shouldReconnect = FALSE,
                                !.feed.reconnectTimer = FALSE])
        s == a.feed.ws
    IN  IF s = Null THEN a ELSE [Close(a, s) EXCEPT !.feed.ws = Null]

\* ---- the method or listener of the class of the feed connection ---------
connect(w) ==
    CASE w.feed.class = "CoinMonitor" -> CoinMonitor_connect(w)
      [] w.feed.class = "MarketMonitor" -> MarketMonitor_connect(w)
      [] OTHER -> UserMonitor_connect(w)

disconnect(w) ==
    CASE w.feed.class = "CoinMonitor" -> CoinMonitor_disconnect(w)
      [] w.feed.class = "MarketMonitor" -> MarketMonitor_disconnect(w)
      [] OTHER -> UserMonitor_disconnect(w)

onOpen(w, s) ==
    CASE w.feed.class = "CoinMonitor" -> CoinMonitor_onOpen(w, s)
      [] w.feed.class = "MarketMonitor" -> MarketMonitor_onOpen(w, s)
      [] OTHER -> UserMonitor_onOpen(w, s)

onClose(w) ==
    CASE w.feed.class = "CoinMonitor" -> CoinMonitor_onClose(w)
      [] w.feed.class = "MarketMonitor" -> MarketMonitor_onClose(w)
      [] OTHER -> UserMonitor_onClose(w)

\* only UserMonitor.connect registers an 'error' listener
HasErrorListener(w) == w.feed.class = "UserMonitor"

\* an 'error' event emitted on a socket without an 'error' listener is
\* thrown by the emitter and nothing catches it
Uncaught(w) == [w EXCEPT !.obs.exited = TRUE, !.obs.raised = "Unhandled 'error' event"]

Op(name) ==
    [World EXCEPT !.obs.op = name, !.obs.socket = Null, !.obs.pong = Null,
                  !.obs.events = {}, !.obs.frame = <<>>]

NumCreated(socks) == Cardinality({ s \in Sockets : socks[s].readyState # "NONE" })

Alive == ~obs.exited

(***************************************************************************)
(* Quote messages and the TradingBot listeners.  Prices of a stored quote   *)
(* are in cents; contract is the descriptor whose token the quote was       *)
(* received for.                                                            *)
(***************************************************************************)
\* best_ask / best_bid strings of a price_changes entry, in mills
Quotes == { [best_ask |-> 34, best_bid |-> 20], [best_ask |-> 0, best_bid |-> 546] }

Optional(S) == {<<>>} \cup { <<x>> : x \in S }

\* a price_change message: entries for the yes and the no token of a contract
Messages(contracts) ==
    { m \in [contract : contracts, yes : Optional(Quotes), no : Optional(Quotes)] :
        m.yes # <<>> \/ m.no # <<>> }

\* Math.round(parseFloat(best_ask) * 100) / 100 || 1, and the same for the
\* bid without the default
TokenPrice(change, contract) ==
    [bestAsk |-> IF RoundCents(change.best_ask) = 0 THEN 100
                 ELSE RoundCents(change.best_ask),
     bestBid |-> RoundCents(change.best_bid),
     contract |-> contract]

\* faulty variant: only the first quote of a token counts as a change
Changed_FirstOnly(stored, received) == stored = <<>>

\* the stored quote is absent or differs from the received one
Changed(stored, received) ==
    \/ stored = <<>>
    \/ stored[1].bestAsk # received.bestAsk
    \/ stored[1].bestBid # received.bestBid

\* part_001 handlePriceChange: the quote pair is saved under the slug of
\* the current descriptor; reading bestAsk of an absent quote throws inside
\* the try block
SavePrice(w, payload) ==
    IF w.market.curMarketInfo = Null THEN w
    ELSE LET a == [w EXCEPT !.bot.currentSlug = w.market.curMarketInfo]
         IN  IF payload.yesPrice = <<>> \/ payload.noPrice = <<>> THEN a
             ELSE [a EXCEPT !.bot.redis =
                       <<[slug |-> w.market.curMarketInfo,
                          upTokenPrice |-> payload.yesPrice[1],
                          downTokenPrice |-> payload.noPrice[1]]>>]

Order(assetId, side, outcome, price) ==
    <<[assetId |-> assetId, side |-> side, outcome |-> outcome, price |-> price]>>

\* part_002 handlePriceChange: first order below 0.05, second order once the
\* bid of the bought token is above 0.1; reading a field of an absent quote
\* throws and the message handler of the monitor catches it
PlaceOrders(w, payload) ==
    LET cur == w.market.curMarketInfo
        y == payload.yesPrice
        n == payload.noPrice
        first == w.bot.firstOrder
    IN  IF first = <<>>
        THEN IF y = <<>> THEN w
             ELSE IF y[1].bestAsk < 5
                  THEN [w EXCEPT !.bot.firstOrder = Order(cur, "BUY", "UP", y[1].bestAsk)]
             ELSE IF n = <<>> THEN w
             ELSE IF n[1].bestAsk < 5
                  THEN [w EXCEPT !.bot.firstOrder = Order(cur, "BUY", "DOWN", n[1].bestAsk)]
             ELSE w
        ELSE IF w.bot.secondOrder # <<>> THEN w
        ELSE IF first[1].outcome = "UP"
             THEN IF y = <<>> THEN w
                  ELSE IF y[1].bestBid > 10
                       THEN [w EXCEPT !.bot.secondOrder =
                                 Order(cur, "SELL", "UP", y[1].bestAsk)]
                  ELSE w
        ELSE IF n = <<>> THEN w
        ELSE IF n[1].bestBid > 10
             THEN [w EXCEPT !.bot.secondOrder = Order(cur, "SELL", "DOWN", n[1].bestAsk)]
        ELSE w

handlePriceChange(w, payload) ==
    IF w.bot.version = 1 THEN SavePrice(w, payload) ELSE PlaceOrders(w, payload)

\* this.emit(PRICE_CHANGE, {yesPrice, noPrice})
EmitPriceChange(w) ==
    LET payload == [yesPrice |-> w.market.yesPrice, noPrice |-> w.market.noPrice]
        e == [w EXCEPT !.obs.emitted =
                                <<[slug |-> w.market.curMarketInfo,
                                   yesPrice |-> payload.yesPrice,
                                   noPrice |-> payload.noPrice]>>,
                            !.obs.events = @ \cup {"PRICE_CHANGE"}]
    IN  IF w.bot.handlers THEN handlePriceChange(e, payload) ELSE e

\* the entry whose asset_id is the yes (no) token of curMarketInfo
Find(w, m, entry) ==
    IF w.market.curMarketInfo # Null /\ m.contract = w.market.curMarketInfo
    THEN entry ELSE <<>>

handlePriceChangeMessage(w, m) ==
    LET yesChange == Find(w, m, m.yes)
        noChange == Find(w, m, m.no)
        yes == IF yesChange = <<>> THEN w.market.yesPrice
               ELSE <<TokenPrice(yesChange[1], m.contract)>>
        no == IF noChange = <<>> THEN w.market.noPrice
              ELSE <<TokenPrice(noChange[1], m.contract)>>
        hasPriceChange ==
            \/ yesChange # <<>> /\ Changed(w.market.yesPrice, yes[1])
            \/ noChange # <<>> /\ Changed(w.market.noPrice, no[1])
        stored == [w EXCEPT !.market.yesPrice = yes, !.market.noPrice = no]
    IN  IF hasPriceChange THEN EmitPriceChange(stored) ELSE stored

\* a promise rejected with nobody to handle it: the runtime either ends the
\* process or only warns, depending on its version and flags
Unhandled(w, error, fatal) == [Raise(w, error) EXCEPT !.obs.exited = fatal]

\* both revisions read marketInfo.question first, which throws on null, and
\* only then clear the orders; part_001 also moves currentSlug and deletes
\* the saved prices of the previous slug
handleMarketUpdated(w, fatal) ==
    LET info == w.market.curMarketInfo
    IN  IF info = Null
        THEN Unhandled(w, "TypeError: Cannot read properties of null", fatal)
        ELSE IF w.bot.version = 1
        THEN [w EXCEPT !.bot.redis =
                           IF @ # <<>> /\ @[1].slug = w.bot.currentSlug THEN <<>> ELSE @,
                       !.bot.currentSlug = info,
                       !.bot.firstOrder = <<>>,
                       !.bot.secondOrder = <<>>]
        ELSE [w EXCEPT !.bot.firstOrder = <<>>, !.bot.secondOrder = <<>>]

\* this.emit(MARKET_UPDATED, this.curMarketInfo)
EmitMarketUpdated(w, fatal) ==
    LET e == [w EXCEPT !.obs.events = @ \cup {"MARKET_UPDATED"}]
    IN  IF w.bot.handlers THEN handleMarketUpdated(e, fatal) ELSE e

(***************************************************************************)
(* Inbound frames.  A frame is its text when that is a control token or     *)
(* blank, and what JSON.parse returns for it: nothing when it throws.       *)
(***************************************************************************)
Frame(text, json) == [text |-> text, json |-> json]

ControlFrames == { Frame(t, <<>>) : t \in {"PING", "PONG", "blank"} }

\* a payload that is not JSON
Unparseable == Frame("other", <<>>)

\* values of a crypto_prices_chainlink update
CoinPrices == {64000, 64100}

CoinJson ==
    { [topic |-> "crypto_prices_chainlink", type |-> t, value |-> v] :
        t \in {"update", "subscribe"}, v \in CoinPrices }

\* best_ask / best_bid strings of the frames: the first two round to the
\* same cents
FrameQuotes == Quotes \cup { [best_ask |-> 31, best_bid |-> 18] }

\* price_change messages, and a book message
MarketJson(contracts) ==
    LET changes == { m \in [contract : contracts, yes : Optional(FrameQuotes),
                                                  no : Optional(FrameQuotes)] :
                       m.yes # <<>> \/ m.no # <<>> }
    IN  { [event_type |-> "price_change", price_changes |-> m] : m \in changes }
        \cup { [event_type |-> "book", price_changes |-> m] :
                   m \in { x \in changes : x.contract = 1 /\ x.yes = x.no
                                              /\ x.yes[1].best_ask = 0 } }

UserJson == { [event_type |-> e] : e \in {"order", "trade", "subscribed"} }

Frames(class, contracts) ==
    ControlFrames \cup {Unparseable}
    \cup { Frame("other", <<j>>) :
             j \in CASE class = "CoinMonitor" -> CoinJson
                    [] class = "MarketMonitor" -> MarketJson(contracts)
                    [] OTHER -> UserJson }

\* the contracts whose tokens the frames name: the one of the first period
\* and another one
FrameContracts == {1, 2}

\* the frames a peer of each class sends
FramesOf == [c \in Classes |-> Frames(c, FrameContracts)]

AllFrames == UNION { FramesOf[c] : c \in Classes }

\* this.emit(name, ...) of an event nothing listens to in the model
Emit(w, name) == [w EXCEPT !.obs.events = @ \cup {name}]

\* sendPong(): the PONG goes to the socket this.ws refers to
sendPong(w) ==
    IF IsOpen(w, w.feed.ws) THEN [w EXCEPT !.obs.pong = w.feed.ws] ELSE w

\* CoinMonitor.handleMessage: a payload that does not parse is logged
CoinMonitor_handleMessage(w, data) ==
    IF data.json = <<>> THEN w
    ELSE LET message == data.json[1]
         IN  IF message.topic = "crypto_prices_chainlink" /\ message.type = "update"
             THEN Emit([w EXCEPT !.feed.currentCoinPrice = <<message.value>>],
                       "PRICE_UPDATE")
             ELSE w

\* faulty variant: JSON.parse outside the try block, so that the SyntaxError
\* leaves the listener and nothing catches it
MarketMonitor_handleMessage_Throws(w, data) ==
    IF data.json = <<>>
    THEN [w EXCEPT !.obs.exited = TRUE, !.obs.raised = "SyntaxError"]
    ELSE LET message == data.json[1]
         IN  IF message.event_type = "price_change"
             THEN handlePriceChangeMessage(w, message.price_changes)
             ELSE w

\* MarketMonitor.handleMessage: JSON.parse inside try, the error is logged
MarketMonitor_handleMessage(w, data) ==
    IF data.json = <<>> THEN w
    ELSE LET message == data.json[1]
         IN  IF message.event_type = "price_change"
             THEN handlePriceChangeMessage(w, message.price_changes)
             ELSE w

\* UserMonitor.handleMessage
UserMonitor_handleMessage(w, data) ==
    IF data.json = <<>> THEN w
    ELSE LET message == data.json[1]
         IN  IF message.event_type = "order" THEN Emit(w, "ORDER_MESSAGE")
             ELSE IF message.event_type = "trade" THEN Emit(w, "TRADE_MESSAGE")
             ELSE w

\* the 'message' listener connect() registers: CoinMonitor and
\* MarketMonitor drop blank frames, answer PING and ignore PONG;
\* UserMonitor ignores PONG and hands every other frame to handleMessage
onMessage(w, data) ==
    IF w.feed.class = "UserMonitor"
    THEN IF data.text = "PONG" THEN w ELSE UserMonitor_handleMessage(w, data)
    ELSE IF data.text = "blank" THEN w
    ELSE IF data.text = "PING" THEN sendPong(w)
    ELSE IF data.text = "PONG" THEN w
    ELSE IF w.feed.class = "CoinMonitor" THEN CoinMonitor_handleMessage(w, data)
    ELSE MarketMonitor_handleMessage(w, data)

\* how the step of an inbound frame is named in obs.op
FrameOp(data) ==
    CASE data.text = "PING" -> "ping"
      [] data.text = "PONG" -> "pong"
      [] data.text = "blank" -> "blank"
      [] data.json = <<>> -> "unparseable"
      [] OTHER -> "message"

(***************************************************************************)
(* Calls and events                                                         *)
(***************************************************************************)
\* an explicit connect() by the owner of the feed connection
Connect ==
    /\ Alive
    /\ Free(World) # {}
    /\ feed.pending < MaxPending
    /\ Install(connect([Op("connect") EXCEPT !.obs.disconnected = FALSE]))

\* an explicit disconnect() by the owner of the feed connection
Disconnect ==
    /\ Alive
    /\ Install(disconnect([Op("disconnect") EXCEPT !.obs.disconnected = TRUE,
                                                   !.obs.everDisconnected = TRUE]))

\* the credentials awaited by UserMonitor.connect arrive
CredsResolved ==
    /\ Alive
    /\ feed.pending > 0
    /\ Free(World) # {}
    /\ Install(UserMonitor_connected(Op("creds")))

\* the timeout set by scheduleReconnect fires
ReconnectTimer ==
    /\ Alive
    /\ feed.reconnectTimer
    /\ feed.pending < MaxPending
    /\ Install(UserMonitor_connect([Op("timer") EXCEPT !.feed.reconnectTimer = FALSE]))

\* the connection of socket s is established
SocketOpen(s) ==
    /\ Alive
    /\ sockets[s].readyState = "CONNECTING"
    /\ LET w == [Op("open") EXCEPT !.sockets[s].readyState = "OPEN"]
       IN  Install(IF sockets[s].listeners THEN onOpen(w, s) ELSE w)

\* socket s is closed, by the peer or because its close() has completed
SocketClose(s) ==
    /\ Alive
    /\ sockets[s].readyState \in {"OPEN", "CLOSING"}
    /\ Free(World) # {}
    /\ LET w == [Op("close") EXCEPT !.sockets[s].readyState = "CLOSED",
                                    !.obs.mark = NumCreated(sockets)]
       IN  Install(IF sockets[s].listeners THEN onClose(w) ELSE w)

\* the connection attempt of socket s fails: 'error', then 'close'
SocketError(s) ==
    /\ Alive
    /\ sockets[s].readyState = "CONNECTING"
    /\ Free(World) # {}
    /\ LET w == [Op("error") EXCEPT !.sockets[s].readyState = "CLOSED",
                                    !.obs.mark = NumCreated(sockets)]
       IN  Install(IF ~HasErrorListener(w) THEN Uncaught(w)
                   ELSE IF sockets[s].listeners THEN onClose(w) ELSE w)

\* a reference price: period is the period in which it was observed or, of
\* a baseline, the period it was recorded as the baseline of
CoinPrice(price, period) == [price |-> price, period |-> period]

\* the scheduled task before it calls updateMarket(): a reference price
\* observed so far becomes the baseline, otherwise the baseline is kept
CarryForward(w) ==
    IF w.market.currentCoinPrice # <<>>
    THEN [w EXCEPT !.market.startCoinPrice =
                       <<CoinPrice(w.market.currentCoinPrice[1].price, w.obs.period)>>]
    ELSE w

\* updateMarket() up to its await of the descriptor; the scheduled task
\* calls it at a period boundary, an owner without a TradingBot at will
UpdateMarket ==
    /\ Alive
    /\ feed.class = "MarketMonitor"
    /\ market.scheduled \/ bot.pc = "none"
    /\ market.fetching = Null
    /\ obs.period < MaxPeriods
    /\ LET w == [Op("updateMarket") EXCEPT !.obs.period = @ + 1]
           c == IF market.scheduled THEN CarryForward(w) ELSE w
       IN  Install([MarketMonitor_disconnect(c) EXCEPT !.market.fetching = w.obs.period])

\* updateMarket() after the await: getMarketInfoFromSlug returned the
\* descriptor (ok) or null, then MARKET_UPDATED is emitted
MarketFetched(ok, fatal) ==
    /\ Alive
    /\ market.fetching # Null
    /\ bot.pc # "marketStart"
    /\ LET w == [Op("fetched") EXCEPT
                    !.market.curMarketInfo = IF ok THEN market.fetching ELSE Null,
                    !.market.fetching = Null]
       IN  Install(EmitMarketUpdated(w, fatal))

\* a price_change message arrives on socket s for tokens it subscribed to
QuoteMessage(s, m) ==
    /\ Alive
    /\ feed.class = "MarketMonitor"
    /\ sockets[s].readyState = "OPEN"
    /\ sockets[s].listeners
    /\ m.contract \in Range(sockets[s].sent)
    /\ Install(handlePriceChangeMessage(Op("message"), m))

\* a frame arrives on the open socket s and its 'message' listener runs
Inbound(s, data) ==
    /\ Alive
    /\ sockets[s].readyState = "OPEN"
    /\ sockets[s].listeners
    /\ data \in FramesOf[feed.class]
    /\ Install(onMessage([Op(FrameOp(data)) EXCEPT
                               !.obs.socket = s,
                               !.obs.frame = <<data>>,
                               !.obs.dropped = IF data = Unparseable THEN s ELSE @],
                          data))

(***************************************************************************)
(* One feed connection of either class, used directly by its owner          *)
(***************************************************************************)
\* the evaluators of the frontend take no part
GridIdle ==
    /\ priceData = <<>>
    /\ maxTotalCost = 95
    /\ gridGap = 5
    /\ orderSize = 1
    /\ enableRebuy = FALSE
    /\ pc = "idle"
    /\ tokenType = "up"
    /\ gridLevels = <<>>
    /\ gridStates = <<>>
    /\ previousGridLevel = Null
    /\ currentGridLevel = Null
    /\ i = 1
    /\ upStates = <<>>
    /\ downStates = <<>>
    /\ settle = NoSettle
    /\ result = NoResult
    /\ sellResult = NoResult
    /\ hedgeResult = NoResult
    /\ runs = <<>>


InitFeed ==
    /\ GridIdle
    /\ sockets = [s \in Sockets |-> NoSocket]
    /\ feed \in { NewFeed(c) : c \in Classes }
    /\ market = NewMarket
    /\ bot \in { [NewBot(1, k) EXCEPT !.pc = "none"] : k \in BOOLEAN }
    /\ bot.privateKey \/ feed.class = "UserMonitor"
    /\ obs = NoObs

NextFeed ==
    \/ Connect
    \/ Disconnect
    \/ CredsResolved
    \/ ReconnectTimer
    \/ \E s \in Sockets : SocketOpen(s)
    \/ \E s \in Sockets : SocketClose(s)
    \/ \E s \in Sockets : SocketError(s)
    \/ UpdateMarket
    \/ \E ok \in BOOLEAN : MarketFetched(ok, FALSE)

SpecFeed == InitFeed /\ [][NextFeed]_vars

(***************************************************************************)
(* The backend process: startServer creates a TradingBot and starts it; the *)
(* bot owns the MarketMonitor, whose scheduled task rolls the contract over *)
(***************************************************************************)
\* startServer: a start() that throws is caught and ends the process
ExitProcess(w, error) == [Raise(w, error) EXCEPT !.obs.exited = TRUE]

\* TradingBot.start up to the await inside MarketMonitor.start: part_001
\* connects to Redis first (redisOk), then the monitor requests the
\* descriptor of the current period
BotStart(redisOk) ==
    /\ Alive
    /\ bot.pc = "new"
    /\ redisOk \/ bot.version = 1
    /\ LET w == Op("start")
       IN  Install(IF ~redisOk THEN ExitProcess(w, "Failed to connect to Redis")
                   ELSE [w EXCEPT !.bot.pc = "marketStart",
                                  !.market.fetching = w.obs.period])

\* the openPrice the price API reports for a period window
OpenPrice == 63900

\* MarketMonitor.start after its awaits: with a descriptor the open price
\* of the window is requested (open: it was delivered) and connect() is
\* called, then the rollover task is scheduled; back in TradingBot.start,
\* userMonitor.connect() throws at once when no private key is configured
StartFetched(ok, open) ==
    /\ Alive
    /\ bot.pc = "marketStart"
    /\ open => ok
    /\ LET a == [Op("started") EXCEPT
                    !.market.curMarketInfo = IF ok THEN market.fetching ELSE Null,
                    !.market.startCoinPrice =
                        IF open THEN <<CoinPrice(OpenPrice, obs.period)>> ELSE <<>>,
                    !.market.fetching = Null,
                    !.market.scheduled = TRUE]
           b == IF ok THEN MarketMonitor_connect(a) ELSE a
       IN  Install(IF ~b.bot.privateKey
                   THEN ExitProcess(b, "WALLET_PRIVATE_KEY not configured")
                   ELSE [b EXCEPT !.bot.pc = "userConnect"])

\* userMonitor.connect() has its credentials (ok) or they could not be
\* derived; with them start() registers its listeners
UserConnected(ok) ==
    /\ Alive
    /\ bot.pc = "userConnect"
    /\ LET w == Op("listening")
       IN  Install(IF ~ok THEN ExitProcess(w, "Failed to derive API credentials")
                   ELSE [w EXCEPT !.bot.pc = "running",
                                  !.bot.handlers = TRUE,
                                  !.bot.currentSlug =
                                      IF w.bot.version = 1 THEN w.market.curMarketInfo
                                      ELSE @])

InitBot ==
    /\ GridIdle
    /\ sockets = [s \in Sockets |-> NoSocket]
    /\ feed = NewFeed("MarketMonitor")
    /\ market = NewMarket
    /\ bot \in { NewBot(v, k) : v \in Versions, k \in BOOLEAN }
    /\ obs = NoObs

NextBot ==
    \/ \E redisOk \in BOOLEAN : BotStart(redisOk)
    \/ \E ok, open \in BOOLEAN : StartFetched(ok, open)
    \/ \E ok \in BOOLEAN : UserConnected(ok)
    \/ UpdateMarket
    \/ \E ok, fatal \in BOOLEAN : MarketFetched(ok, fatal)
    \/ \E s \in Sockets : SocketOpen(s)
    \/ \E s \in Sockets : SocketClose(s)
    \/ \E s \in Sockets : SocketError(s)
    \/ \E s \in Sockets : \E m \in Messages(Contracts) : QuoteMessage(s, m)

SpecBot == InitBot /\ [][NextBot]_vars

\* a feed connection with the frames its peer sends: a CoinMonitor or a
\* UserMonitor that its owner connects, or the MarketMonitor of a TradingBot
\* connect() called by the owner of a monitor that no TradingBot owns
OwnerConnect == bot.pc = "none" /\ Connect

InitInbound ==
    /\ GridIdle
    /\ sockets = [s \in Sockets |-> NoSocket]
    /\ feed \in { NewFeed(c) : c \in Classes }
    /\ market = NewMarket
    /\ bot \in { NewBot(v, TRUE) : v \in Versions }
             \cup { [NewBot(1, TRUE) EXCEPT !.pc = "none"] }
    /\ bot.pc = "new" <=> feed.class = "MarketMonitor"
    /\ obs = NoObs

NextInbound ==
    \/ OwnerConnect
    \/ CredsResolved
    \/ ReconnectTimer
    \/ \E redisOk \in BOOLEAN : BotStart(redisOk)
    \/ \E ok, open \in BOOLEAN : StartFetched(ok, open)
    \/ \E ok \in BOOLEAN : UserConnected(ok)
    \/ \E s \in Sockets : SocketOpen(s)
    \/ \E s \in Sockets : SocketClose(s)
    \/ \E s \in Sockets : \E data \in AllFrames : Inbound(s, data)

SpecInbound == InitInbound /\ [][NextInbound]_vars

(***************************************************************************)
(* The MarketMonitor of a TradingBot with the reference prices that its     *)
(* CoinMonitor reports                                                      *)
(***************************************************************************)
\* the PRICE_UPDATE listener that MarketMonitor.start registers
PriceUpdate(price) ==
    /\ Alive
    /\ bot.pc # "new"
    /\ market.currentCoinPrice # <<CoinPrice(price, obs.period)>>
    /\ LET w == [Op("price") EXCEPT
                    !.market.currentCoinPrice = <<CoinPrice(price, obs.period)>>]
       IN  Install(IF w.market.startCoinPrice # <<>>
                   THEN Emit(w, "COIN_PRICE_BIAS_CHANGE") ELSE w)

NextBaseline ==
    \/ \E redisOk \in BOOLEAN : BotStart(redisOk)
    \/ \E ok, open \in BOOLEAN : StartFetched(ok, open)
    \/ \E ok \in BOOLEAN : UserConnected(ok)
    \/ UpdateMarket
    \/ \E ok, fatal \in BOOLEAN : MarketFetched(ok, fatal)
    \/ \E price \in CoinPrices : PriceUpdate(price)

SpecBaseline == InitBot /\ [][NextBaseline]_vars

(***************************************************************************)
(* A MarketMonitor of 15-minute contracts asked for its slug as time passes *)
(***************************************************************************)
\* the clock of the host moves on to the next instant explored
ClockAdvance ==
    /\ Alive
    /\ \E t \in Instants :
          /\ t > obs.now
          /\ \A u \in Instants : u > obs.now => t <= u
          /\ Install([Op("clock") EXCEPT !.obs.now = t])

\* getCurrentSlug() of a FIFTEEN_MINUTES monitor
GetCurrentSlug ==
    /\ Alive
    /\ Install([Op("slug") EXCEPT
                   !.obs.slug = <<getCurrent15MinSlug(market.symbol, obs.zone, obs.now)>>])

InitSlug ==
    /\ GridIdle
    /\ sockets = [s \in Sockets |-> NoSocket]
    /\ feed = NewFeed("MarketMonitor")
    /\ market \in { [NewMarket EXCEPT !.symbol = a] : a \in Symbols }
    /\ bot = [NewBot(1, TRUE) EXCEPT !.pc = "none"]
    /\ obs \in { [NoObs EXCEPT !.now = t, !.zone = z] : t \in Instants, z \in Zones }

NextSlug ==
    \/ ClockAdvance
    \/ GetCurrentSlug

SpecSlug == InitSlug /\ [][NextSlug]_vars

(***************************************************************************)
(* Properties of the feed connections                                       *)
(***************************************************************************)
\* a socket is created in the step
Created(s) == sockets[s].readyState = "NONE" /\ sockets'[s].readyState # "NONE"

\* C11: once disconnect() has been called on a feed connection, no later
\* event creates a socket: a socket is created again only by the step of an
\* explicit connect() call.
C11_DisconnectIsTerminal ==
    [][(obs.disconnected /\ obs'.disconnected) => \A s \in Sockets : ~Created(s)]_vars

\* sockets that are connecting or open
Live(socks) == { s \in Sockets : socks[s].readyState \in {"CONNECTING", "OPEN"} }

\* the close event of socket s is delivered in the step
Closed(s) == sockets[s].readyState # "CLOSED" /\ sockets'[s].readyState = "CLOSED"

\* C12: a MarketMonitor never has more than one socket connecting or open,
\* and the close event of a socket neither clears the reference to a socket
\* created after it nor stops the heartbeat started for such a socket.
C12_AtMostOneSocket ==
    [][feed.class = "MarketMonitor" =>
          /\ Cardinality(Live(sockets')) <= 1
          /\ \A s \in Sockets :
                Closed(s) =>
                    /\ feed.ws > s => feed'.ws = feed.ws
                    /\ feed.pingCronTask > s => feed.pingCronTask \in feed'.timers]_vars

\* a frame is sent on socket s in the step
Sent(s) == Len(sockets'[s].sent) > Len(sockets[s].sent)

LastSent(s) == sockets'[s].sent[Len(sockets'[s].sent)]

\* C13: a subscribe frame is sent only when no rollover is waiting for its
\* descriptor, and it never names the tokens of a contract of an earlier
\* period.
C13_SubscribeAfterRollover ==
    [][\A s \in Sockets :
          Sent(s) => /\ market.fetching = Null
                     /\ LastSent(s) \notin 1..(obs'.period - 1)]_vars

\* what the event loop is bound to deliver: a pending descriptor fetch
\* returns, a connection attempt that does not fail succeeds, and a socket
\* that is closing ends closed; the scheduled task runs at every boundary
ClosingDone == \E s \in Sockets : sockets[s].readyState = "CLOSING" /\ SocketClose(s)

FairBot ==
    /\ WF_vars(\E redisOk \in BOOLEAN : BotStart(redisOk))
    /\ WF_vars(\E ok, open \in BOOLEAN : StartFetched(ok, open))
    /\ WF_vars(\E ok \in BOOLEAN : UserConnected(ok))
    /\ WF_vars(UpdateMarket)
    /\ WF_vars(\E ok, fatal \in BOOLEAN : MarketFetched(ok, fatal))
    /\ WF_vars(\E s \in Sockets : SocketOpen(s))
    /\ WF_vars(ClosingDone)

SpecBotFair == SpecBot /\ FairBot

\* the monitor holds an open socket on which exactly the tokens of
\* contract c have been subscribed
SubscribedTo(c) ==
    /\ IsOpen(World, feed.ws)
    /\ Range(sockets[feed.ws].sent) = {c}

\* updateMarket has just installed the descriptor of contract c
RolledOverTo(c) == obs.op = "fetched" /\ market.curMarketInfo = c

QuotesOf(contract, yes, no) ==
    /\ yes # <<>> => yes[1].contract = contract
    /\ no # <<>> => no[1].contract = contract

\* C15: the quote snapshot holds only quotes received for the tokens of the
\* current descriptor (none when there is no descriptor), and so does every
\* PRICE_CHANGE payload and every price saved under a slug.
C15_SnapshotOfCurrentContract ==
    /\ QuotesOf(market.curMarketInfo, market.yesPrice, market.noPrice)
    /\ obs.emitted # <<>> =>
           QuotesOf(obs.emitted[1].slug, obs.emitted[1].yesPrice, obs.emitted[1].noPrice)
    /\ bot.redis # <<>> =>
           QuotesOf(bot.redis[1].slug, <<bot.redis[1].upTokenPrice>>,
                    <<bot.redis[1].downTokenPrice>>)

\* what the event loop is bound to deliver to a feed connection: the
\* reconnect timeout fires, awaited credentials arrive, a connection attempt
\* that does not fail succeeds, and a socket that is closing ends closed
FairFeed ==
    /\ WF_vars(ReconnectTimer)
    /\ WF_vars(CredsResolved)
    /\ WF_vars(\E s \in Sockets : SocketOpen(s))
    /\ WF_vars(ClosingDone)

SpecFeedFair == SpecFeed /\ FairFeed

\* a socket has just closed, or its connection attempt has just failed,
\* when n sockets had been created and disconnect() had never been called
Failed(n) == obs.op \in {"close", "error"} /\ obs.mark = n /\ ~obs.everDisconnected

\* C16: after a close or a failed connection attempt without disconnect(),
\* a further socket is eventually created, unless disconnect() is called
\* meanwhile or the model has no socket left to create.
C16_ReconnectsAfterEveryFailure ==
    \A n \in 1..MaxSockets :
        Failed(n) ~>
            (NumCreated(sockets) > n \/ obs.everDisconnected \/ Free(World) = {})

\* the step in which a descriptor fetch returns null
FetchFailed == obs'.op \in {"started", "fetched"} /\ market'.curMarketInfo = Null

\* C17: a failed descriptor fetch leaves no current contract and the
\* rollover task scheduled; a failed rollover raises no error and leaves the
\* process running; while there is no current contract a quote message
\* changes neither the snapshot nor what has been emitted.
C17_FailedFetchIsRecoverable ==
    [][/\ FetchFailed => market'.scheduled
       /\ (FetchFailed /\ obs'.op = "fetched") =>
              (obs'.raised = obs.raised /\ ~obs'.exited)
       /\ (obs'.op = "message" /\ market.curMarketInfo = Null) =>
              /\ market'.yesPrice = market.yesPrice
              /\ market'.noPrice = market.noPrice
              /\ obs'.emitted = obs.emitted]_vars

\* C18: in a process without a wallet private key, when
\* MarketMonitor.start has returned, TradingBot.start goes on to register
\* its listeners and the process keeps running.
C18_StartsWithoutPrivateKey ==
    [][(~bot.privateKey /\ obs'.op = "started") =>
          (~obs'.exited /\ bot'.pc \in {"userConnect", "running"})]_vars

\* C19: at every MARKET_UPDATED notification delivered to the TradingBot,
\* with or without a descriptor, firstOrder and secondOrder are cleared.
C19_RolloverClearsOrders ==
    [][(obs'.op = "fetched" /\ bot.handlers) =>
          (bot'.firstOrder = <<>> /\ bot'.secondOrder = <<>>)]_vars

\* the guard of connect(): already connecting or open
Busy == feed.isConnecting \/ IsOpen(World, feed.ws)

\* C20: a connect() call, or the continuation of one, that runs while the
\* feed connection is already connecting or open creates no socket, sends no
\* frame and starts no heartbeat timer.
C20_ConnectIsIdempotent ==
    [][(obs'.op \in {"connect", "creds"} /\ Busy) =>
          /\ sockets' = sockets
          /\ feed'.ws = feed.ws
          /\ feed'.timers = feed.timers]_vars

(***************************************************************************)
(* Properties of the inbound frames                                         *)
(***************************************************************************)
\* the step leaves the objects as they were
Untouched == sockets' = sockets /\ feed' = feed /\ market' = market /\ bot' = bot

\* C21: a PING received on an open socket is answered with a PONG on that
\* socket and emits no event; a PONG changes no state and emits no event.
C21_PingAnsweredWithPong ==
    [][/\ obs'.op = "ping" =>
              (obs'.pong = obs'.socket /\ obs'.events = {} /\ Untouched)
       /\ obs'.op = "pong" =>
              (obs'.pong = Null /\ obs'.events = {} /\ Untouched)]_vars

\* C22: a frame that does not parse leaves the sockets, the fields of the
\* feed connection (socket, connecting flag, heartbeat timer, reference
\* price), the descriptor and the quote snapshot unchanged, emits no event
\* and raises nothing, so that the socket stays open with its listeners.
C22_UnparseableIsDropped ==
    [][obs'.op = "unparseable" =>
          /\ Untouched
          /\ obs'.events = {}
          /\ obs'.emitted = obs.emitted
          /\ obs'.raised = obs.raised
          /\ ~obs'.exited]_vars

\* C22 witness: a MarketMonitor with a descriptor, a quote snapshot and a
\* heartbeat has dropped a frame on its socket, and a later message on the
\* same socket has been processed and emitted PRICE_CHANGE.
C22_Witness ==
    /\ feed.class = "MarketMonitor"
    /\ obs.op = "message"
    /\ obs.dropped # Null
    /\ obs.socket = obs.dropped
    /\ "PRICE_CHANGE" \in obs.events
    /\ feed.timers # {}
    /\ market.curMarketInfo # Null

(***************************************************************************)
(* Properties of the slug                                                   *)
(***************************************************************************)
\* C23: the slug returned at the instant t for the asset a is a-updown-15m-B
\* with B = 900 * floor(t / 900).
C23_SlugIsWindowStart ==
    obs.op = "slug" =>
        obs.slug = <<[cryptoShort |-> cryptoShort(market.symbol),
                      timestamp |-> 900 * (obs.now \div 900)]>>

(***************************************************************************)
(* Properties of the start-price baseline                                   *)
(***************************************************************************)
\* the step in which the scheduled task rolls the contract over
Rollover == obs'.op = "updateMarket" /\ market.scheduled

\* C24: at a rollover a reference price observed so far becomes the
\* baseline of the new period, and a baseline that is left in place is
\* never one recorded for an earlier period.
C24_BaselineReplacedAtRollover ==
    [][Rollover =>
          /\ market.currentCoinPrice # <<>> =>
                 market'.startCoinPrice =
                     <<CoinPrice(market.currentCoinPrice[1].price, obs'.period)>>
          /\ market'.startCoinPrice # <<>> =>
                 market'.startCoinPrice[1].period = obs'.period]_vars

(***************************************************************************)
(* Properties of the quote snapshot                                         *)
(***************************************************************************)
\* the price_change message of the step, if its frame is one
PriceChangeOf(frame) ==
    IF frame # <<>> /\ frame[1].json # <<>> /\ feed.class = "MarketMonitor"
                    /\ frame[1].json[1].event_type = "price_change"
    THEN <<frame[1].json[1].price_changes>>
    ELSE <<>>

\* bestAsk and bestBid of a stored quote
Values(stored) == IF stored = <<>> THEN <<>> ELSE <<stored[1].bestAsk, stored[1].bestBid>>

\* the entry of the message m is for a token of the current descriptor and
\* its rounded pair is not the stored one
Differs(m, entry, stored) ==
    /\ market.curMarketInfo # Null
    /\ m.contract = market.curMarketInfo
    /\ entry # <<>>
    /\ Values(stored) # Values(<<TokenPrice(entry[1], m.contract)>>)

\* C25: a price_change message emits PRICE_CHANGE exactly when, for a token
\* of the current descriptor that it names, the rounded pair differs from
\* the stored one or none is stored; otherwise it emits nothing and the
\* values of the snapshot stay as they were.
C25_EmitsOnlyOnChange ==
    [][PriceChangeOf(obs'.frame) # <<>> =>
          LET m == PriceChangeOf(obs'.frame)[1]
              differs == \/ Differs(m, m.yes, market.yesPrice)
                         \/ Differs(m, m.no, market.noPrice)
          IN  /\ "PRICE_CHANGE" \in obs'.events <=> differs
              /\ ~differs => /\ Values(market'.yesPrice) = Values(market.yesPrice)
                             /\ Values(market'.noPrice) = Values(market.noPrice)
                             /\ obs'.emitted = obs.emitted]_vars

\* C25 witness: a message that names both tokens of the current descriptor
\* with strings that round to the stored values has just been received
\* with other strings than stored ones would have, and nothing was emitted.
C25_Witness ==
    /\ PriceChangeOf(obs.frame) # <<>>
    /\ obs.events = {}
    /\ obs.emitted # <<>>
    /\ LET m == PriceChangeOf(obs.frame)[1]
       IN  /\ m.contract = market.curMarketInfo
           /\ m.yes # <<>> /\ m.no # <<>>
           /\ m.yes[1].best_ask = 31
           /\ m.no[1].best_ask = 34

(***************************************************************************)
(* Properties of the evaluators: fills and valuation                        *)
(***************************************************************************)
\* the step that ends the iteration of tick i with its hedge fills
FillsTick == pc = "fill" /\ pc' = "entry" /\ i' = i + 1

\* C26: at the fills of a tick every pair recorded so far, the one created
\* at this tick included, whose hedge is unfilled and whose hedge price in
\* cents is at or above the opposite token's price in cents is marked
\* filled with the timestamp of the tick, and no other unfilled hedge is.
C26_HedgeFilledWhenReached ==
    [][FillsTick =>
          \A l \in DOMAIN gridStates : \A k \in DOMAIN Pairs(l) :
              LET old == Pairs(l)[k].hedgeOrder
                  new == gridStates'[l].orderPairs[k].hedgeOrder
                  oppositePriceCents == RoundCents(OppositePrice(priceData[i], tokenType))
              IN  ~old.isFilled =>
                      IF RoundCents(old.price) >= oppositePriceCents
                      THEN new.isFilled /\ new.timestamp = i
                      ELSE ~new.isFilled /\ new.timestamp = Null]_vars

\* C26 witness: the fills of a tick have just marked the hedge of the pair
\* that the same tick created.
C26_Witness ==
    /\ pc = "entry"
    /\ i >= 2
    /\ \E l \in DOMAIN gridStates : \E k \in DOMAIN Pairs(l) :
          /\ Pairs(l)[k].hedgeOrder.isFilled
          /\ Pairs(l)[k].hedgeOrder.timestamp = Pairs(l)[k].entryOrder.timestamp
          /\ Pairs(l)[k].entryOrder.timestamp = i - 1
          /\ RoundCents(Pairs(l)[k].hedgeOrder.price)
                 >= RoundCents(OppositePrice(priceData[i - 1], tokenType))

\* the settlement in which the other token has the higher final price
OtherWinner(s) == [up |-> s.down, down |-> s.up]

\* every pair the evaluation recorded, UP pairs first
RecordedPairs == FlattenPairs(upStates, 1) \o FlattenPairs(downStates, 1)

\* cents by which the entry token of an unhedged pair is worth more under
\* settlement t than under settlement s
RECURSIVE UnhedgedDifference(_, _, _, _)
UnhedgedDifference(pairs, k, s, t) ==
    IF k > Len(pairs) THEN 0
    ELSE (IF pairs[k].hedgeOrder.isFilled THEN 0
          ELSE 100 * pairs[k].entryOrder.size
                   * (TokenValue(t, pairs[k].entryOrder.tokenType)
                      - TokenValue(s, pairs[k].entryOrder.tokenType)))
         + UnhedgedDifference(pairs, k + 1, s, t)

\* C27: a pair whose hedge filled is worth the same whichever token wins,
\* and valuing the recorded pairs with the other token as the winner moves
\* totalProfit by exactly the summed difference in settlement value of the
\* entry tokens of the pairs whose hedge did not fill.
C27_FilledPairsIndependentOfWinner ==
    (pc = "done" /\ result.status = "ok" /\ Len(priceData) > 0) =>
        LET other == GridResult(upStates, downStates, gridLevels, OtherWinner(settle))
        IN  /\ \A k \in DOMAIN RecordedPairs :
                  RecordedPairs[k].hedgeOrder.isFilled =>
                      PairValue(RecordedPairs[k], settle)
                          = PairValue(RecordedPairs[k], OtherWinner(settle))
            /\ other.totalProfit - result.totalProfit
                  = UnhedgedDifference(RecordedPairs, 1, settle, OtherWinner(settle))

\* C27 witness: a finished evaluation that recorded a pair with a filled
\* hedge and a pair with an unfilled one.
C27_Witness ==
    /\ pc = "done"
    /\ result.status = "ok"
    /\ Len(priceData) > 0
    /\ \E k \in DOMAIN RecordedPairs : RecordedPairs[k].hedgeOrder.isFilled
    /\ \E k \in DOMAIN RecordedPairs : ~RecordedPairs[k].hedgeOrder.isFilled
    /\ UnhedgedDifference(RecordedPairs, 1, settle, OtherWinner(settle)) # 0

(***************************************************************************)
(* Backend calculator: calculateGridHedgeStrategy(priceHistory, orderSize)  *)
(* Prices in mills, timestamps are 1-based tick indices.                    *)
(***************************************************************************)
GRID_LEVELS == <<550, 600, 650, 700, 750, 800, 850, 900, 950>>

calculateHedgePrice(entryPrice) == Max(0, 1000 - entryPrice - 30)

crossesLevelFromBelow(previousPrice, currentPrice, level) ==
    previousPrice < level /\ currentPrice >= level

reachesPrice(previousPrice, currentPrice, targetPrice) ==
    \/ previousPrice < targetPrice /\ currentPrice >= targetPrice
    \/ previousPrice > targetPrice /\ currentPrice <= targetPrice

\* lines 75-106: the grid states of both tokens and the empty position list
NewGridLevelState == [hasEntry |-> FALSE, hedgeFilled |-> FALSE]

NewBooks ==
    [up |-> [level \in Range(GRID_LEVELS) |-> NewGridLevelState],
     down |-> [level \in Range(GRID_LEVELS) |-> NewGridLevelState],
     positions |-> <<>>]

\* lines 133-141 and 185-193
NewPosition(level, tok, size, ts) ==
    [gridLevel |-> level, tokenType |-> tok, entryPrice |-> level,
     hedgePrice |-> calculateHedgePrice(level), hedgeFilled |-> FALSE,
     orderSize |-> size, entryTimestamp |-> ts, hedgeFilledTimestamp |-> Null]

\* lines 155-165 and 207-217: the latest unhedged position of the level
MarkLatest(positions, level, tok, ts) ==
    LET recentPositions == { k \in DOMAIN positions :
                                /\ positions[k].gridLevel = level
                                /\ positions[k].tokenType = tok
                                /\ ~positions[k].hedgeFilled }
    IN  IF recentPositions = {} THEN positions
        ELSE LET latest == CHOOSE k \in recentPositions : \A j \in recentPositions : j <= k
             IN  [positions EXCEPT ![latest].hedgeFilled = TRUE,
                                   ![latest].hedgeFilledTimestamp = ts]

\* lines 118-167 for tok = "up", 170-219 for tok = "down": one grid level
ProcessLevel(books, tok, level, current, previous, ts, size) ==
    LET st == books[tok][level]
        enters == /\ crossesLevelFromBelow(CurrentPrice(previous, tok),
                                            CurrentPrice(current, tok), level)
                  /\ (~st.hasEntry \/ st.hedgeFilled)
        entered == IF enters
                   THEN [books EXCEPT
                            ![tok][level] = [hasEntry |-> TRUE, hedgeFilled |-> FALSE],
                            !.positions = Append(@, NewPosition(level, tok, size, ts))]
                   ELSE books
        fills == /\ entered[tok][level].hasEntry
                 /\ ~entered[tok][level].hedgeFilled
                 /\ reachesPrice(OppositePrice(previous, tok), OppositePrice(current, tok),
                                 calculateHedgePrice(level))
    IN  IF fills
        THEN [entered EXCEPT ![tok][level].hedgeFilled = TRUE,
                             !.positions = MarkLatest(@, level, tok, ts)]
        ELSE entered

RECURSIVE ProcessLevels(_, _, _, _, _, _, _)
ProcessLevels(books, tok, n, current, previous, ts, size) ==
    IF n > Len(GRID_LEVELS) THEN books
    ELSE ProcessLevels(ProcessLevel(books, tok, GRID_LEVELS[n], current, previous, ts, size),
                       tok, n + 1, current, previous, ts, size)

\* lines 108-220: one tick, UP levels before DOWN levels
ProcessTick(books, priceHistory, n, size) ==
    LET current == priceHistory[n]
        previous == IF n > 1 THEN priceHistory[n - 1] ELSE current
        ups == ProcessLevels(books, "up", 1, current, previous, n, size)
    IN  ProcessLevels(ups, "down", 1, current, previous, n, size)

\* faulty variant: an unhedged UP position also wins a tie
PositionProfit_TieWins(position, finalPrice) ==
    IF position.hedgeFilled
    THEN (position.hedgePrice - position.entryPrice) * position.orderSize
    ELSE IF position.tokenType = "up"
         THEN IF finalPrice.upTokenPrice >= finalPrice.downTokenPrice
              THEN (1000 - position.entryPrice) * position.orderSize
              ELSE (0 - position.entryPrice) * position.orderSize
         ELSE IF finalPrice.downTokenPrice > finalPrice.upTokenPrice
              THEN (1000 - position.entryPrice) * position.orderSize
              ELSE (0 - position.entryPrice) * position.orderSize

\* lines 230-276: profit of one position, in mills
PositionProfit(position, finalPrice) ==
    IF position.tokenType = "up"
    THEN IF position.hedgeFilled
         THEN (position.hedgePrice - position.entryPrice) * position.orderSize
         ELSE IF finalPrice.upTokenPrice > finalPrice.downTokenPrice
              THEN (1000 - position.entryPrice) * position.orderSize
              ELSE (0 - position.entryPrice) * position.orderSize
    ELSE IF position.hedgeFilled
         THEN (position.hedgePrice - position.entryPrice) * position.orderSize
         ELSE IF finalPrice.downTokenPrice > finalPrice.upTokenPrice
              THEN (1000 - position.entryPrice) * position.orderSize
              ELSE (0 - position.entryPrice) * position.orderSize

RECURSIVE SumProfit(_, _, _)
SumProfit(positions, k, finalPrice) ==
    IF k > Len(positions) THEN 0
    ELSE PositionProfit(positions[k], finalPrice) + SumProfit(positions, k + 1, finalPrice)

\* lines 70-106: the early return, else the initial grid states; gridStates
\* holds upGridStates, downGridStates and positions
BackendStart ==
    /\ pc = "backend"
    /\ IF Len(priceData) = 0
       THEN /\ result' = [status |-> "ok", totalProfit |-> 0, positions |-> <<>>]
            /\ pc' = "returned"
            /\ UNCHANGED gridStates
       ELSE /\ gridStates' = NewBooks
            /\ pc' = "history"
            /\ UNCHANGED result
    /\ UNCHANGED <<priceData, maxTotalCost, gridGap, orderSize, enableRebuy, tokenType,
                   gridLevels, previousGridLevel, currentGridLevel, i,
                   upStates, downStates, settle, sellResult, hedgeResult, runs>>
    /\ UNCHANGED feedVars

\* lines 108-220: one iteration of the loop over priceHistory
BackendTick ==
    /\ pc = "history"
    /\ i <= Len(priceData)
    /\ gridStates' = ProcessTick(gridStates, priceData, i, orderSize)
    /\ i' = i + 1
    /\ UNCHANGED <<priceData, maxTotalCost, gridGap, orderSize, enableRebuy, pc, tokenType,
                   gridLevels, previousGridLevel, currentGridLevel,
                   upStates, downStates, settle, result, sellResult, hedgeResult, runs>>
    /\ UNCHANGED feedVars

\* lines 222-279; the position list is kept next to the returned number
BackendReturn ==
    /\ pc = "history"
    /\ i > Len(priceData)
    /\ result' = [status |-> "ok",
                  totalProfit |-> SumProfit(gridStates.positions, 1,
                                            priceData[Len(priceData)]),
                  positions |-> gridStates.positions]
    /\ pc' = "returned"
    /\ UNCHANGED <<priceData, maxTotalCost, gridGap, orderSize, enableRebuy, tokenType,
                   gridLevels, gridStates, previousGridLevel, currentGridLevel, i,
                   upStates, downStates, settle, sellResult, hedgeResult, runs>>
    /\ UNCHANGED feedVars

InitBackend ==
    /\ priceData \in PriceSeqs
    /\ orderSize \in OrderSizes
    /\ maxTotalCost = 95
    /\ gridGap = 5
    /\ enableRebuy = FALSE
    /\ pc = "backend"
    /\ tokenType = "up"
    /\ gridLevels = <<>>
    /\ gridStates = <<>>
    /\ previousGridLevel = Null
    /\ currentGridLevel = Null
    /\ i = 1
    /\ upStates = <<>>
    /\ downStates = <<>>
    /\ settle = NoSettle
    /\ result = NoResult
    /\ sellResult = NoResult
    /\ hedgeResult = NoResult
    /\ runs = <<>>
    /\ FeedIdle

NextBackend == BackendStart \/ BackendTick \/ BackendReturn

SpecBackend == InitBackend /\ [][NextBackend]_vars

\* the token with the strictly higher final price
StrictWinner(tok) ==
    LET finalPrice == priceData[Len(priceData)]
    IN  CurrentPrice(finalPrice, tok) > OppositePrice(finalPrice, tok)

\* contribution of position k as the valuation rule states it, in mills
Contribution(k) ==
    LET position == result.positions[k]
    IN  IF position.hedgeFilled
        THEN (position.hedgePrice - position.entryPrice) * position.orderSize
        ELSE IF StrictWinner(position.tokenType)
             THEN (1000 - position.entryPrice) * position.orderSize
             ELSE (0 - position.entryPrice) * position.orderSize

RECURSIVE SumContributions(_)
SumContributions(k) ==
    IF k > Len(result.positions) THEN 0 ELSE Contribution(k) + SumContributions(k + 1)

\* C28: the profit the backend calculator returns is the sum over the
\* recorded positions of (hedgePrice - entryPrice) * size for a filled
\* hedge, else (1 - entryPrice) * size when the position's token has the
\* strictly higher final price and -entryPrice * size when it has not.
C28_BackendProfitIsSumOfPositions ==
    pc = "returned" => result.totalProfit = SumContributions(1)

\* C28 witness: a returned evaluation with a hedged position, an unhedged
\* position on the strictly higher token and an unhedged position on the
\* other token.
C28_Witness ==
    /\ pc = "returned"
    /\ \E k \in DOMAIN result.positions : result.positions[k].hedgeFilled
    /\ \E k \in DOMAIN result.positions :
          /\ ~result.positions[k].hedgeFilled
          /\ StrictWinner(result.positions[k].tokenType)
    /\ \E k \in DOMAIN result.positions :
          /\ ~result.positions[k].hedgeFilled
          /\ ~StrictWinner(result.positions[k].tokenType)

\* the open event of socket s is delivered to the monitor in the step
Opened(s) ==
    /\ obs'.op = "open"
    /\ sockets[s].readyState = "CONNECTING"
    /\ sockets'[s].readyState = "OPEN"
    /\ sockets[s].listeners

\* a close event is delivered to the monitor in the step
CloseDelivered == obs'.op = "close" /\ \E s \in Sockets : Closed(s) /\ sockets[s].listeners

\* C29: the open event of a socket starts a heartbeat timer, a monitor never
\* has more than one, a timer is scheduled only for a socket that is open,
\* and after a close event or a disconnect() call none remains scheduled.
C29_HeartbeatOnlyWhileOpen ==
    [][/\ \A s \in Sockets : Opened(s) => s \in feed'.timers
       /\ Cardinality(feed'.timers) <= 1
       /\ \A s \in feed'.timers : sockets'[s].readyState = "OPEN"
       /\ (CloseDelivered \/ obs'.op = "disconnect") => feed'.timers = {}]_vars

\* quotes at which a token's sell price reaches the default threshold
SellTicks ==
    { Tick(500, 500, FALSE, 0),
      Tick(340, 550, FALSE, 0),
      Tick(300, 700, FALSE, 0),
      Tick(550, 340, FALSE, 0),
      Tick(400, 620, FALSE, 0) }

\* calculatePrePurchasedSellStrategy called on its own
InitSell ==
    /\ priceData \in SeqsUpTo(SellTicks, MaxTicks)
    /\ orderSize \in OrderSizes
    /\ maxTotalCost = 95
    /\ gridGap = 5
    /\ enableRebuy = FALSE
    /\ pc = "done"
    /\ tokenType = "up"
    /\ gridLevels = <<>>
    /\ gridStates = <<>>
    /\ previousGridLevel = Null
    /\ currentGridLevel = Null
    /\ i = 1
    /\ upStates = <<>>
    /\ downStates = <<>>
    /\ settle = NoSettle
    /\ result = NoResult
    /\ sellResult = NoResult
    /\ hedgeResult = NoResult
    /\ runs = <<>>
    /\ FeedIdle

NextSell == EvalSell

SpecSell == InitSell /\ [][NextSell]_vars

\* the limit order of the finished pre-purchased-sell evaluation
LimitOrder == sellResult.secondSellLimitOrder[1]

\* ticks from the first sale on at which the remaining token's sell price in
\* cents is at or below targetTotal - sellThreshold
ReachingTicks ==
    { k \in sellResult.firstSellOrder[1].timestamp .. Len(priceData) :
         SellPriceCents(CurrentPrice(priceData[k], LimitOrder.tokenType))
             <= DefaultTargetTotal - DefaultSellThreshold }

\* C30: once the first token is sold, the limit order on the remaining
\* token is filled at the first tick at which that token's sell price in
\* cents is at or below targetTotal - sellThreshold, and is still unfilled
\* at the end of the sequence when there is no such tick.
C30_LimitFillsAtFirstReachingTick ==
    (sellResult.status = "ok" /\ sellResult.secondSellLimitOrder # NoOrder) =>
        IF ReachingTicks = {}
        THEN ~LimitOrder.isFilled /\ LimitOrder.timestamp = Null
        ELSE /\ LimitOrder.isFilled
             /\ LimitOrder.timestamp \in ReachingTicks
             /\ \A k \in ReachingTicks : LimitOrder.timestamp <= k

====
